---- MODULE Spec2Model ----
(***************************************************************************)
(* A model of tastypie/resources.py: the construction of a resource (the   *)
(* available-filters set), build_filters, the dispatch gates and the       *)
(* handlers of a ModelResource over a queryset, the cache key and the      *)
(* cached lookups, and the passes of full_dehydrate.                       *)
(*                                                                         *)
(* Strings that the code formats and splits (filter expressions, wire      *)
(* names, attributes, the id list of get_multiple) are sequences of        *)
(* tokens; the separators "__" and ";" are tokens of their own, so that    *)
(* "%s%s%s" % (a, LOOKUP_SEP, b) is a concatenation and str.split is a     *)
(* real split.  Python values are records [t |-> type, v |-> repr].        *)
(***************************************************************************)
EXTENDS Integers, Sequences, FiniteSets, TLC

VARIABLES
    meta,               \* self._meta as declared (class Meta)
    fields,             \* self.fields, wire name -> field object
    available_filters,  \* self._meta.available_filters
    construction,       \* "pending", "ready" or the error __init__ raised
    bf,                 \* the last direct call of build_filters: input and outcome
    store,              \* the rows behind Meta.queryset, by primary key
    throttle,           \* the accesses the throttle has recorded, by identifier
    last,               \* the last request served: what was asked, answered and called
    cache,              \* what Meta.cache holds, by cache key
    lookup,             \* the last direct cached lookup: arguments, outcome and calls
    dehydrated,         \* the last direct call of full_dehydrate: order, passes and bundle
    written,            \* the last write a detail handler made to each key
    hydrated,           \* the last direct call of the hydration passes: input and outcome
    instances,          \* the class-level base_fields and the fields of each instance
    race                \* the requests in flight inside cached_obj_get, step by step

resourceVars == <<meta, fields, available_filters, construction>>
backendVars == <<store, throttle, last>>
cacheVars == <<cache, lookup, dehydrated>>
otherVars == <<written, hydrated, instances, race>>

-----------------------------------------------------------------------------
(* Python values and strings *)

PyStr(s) == [t |-> "str", v |-> s]
PyTrue == [t |-> "bool", v |-> "True"]
PyFalse == [t |-> "bool", v |-> "False"]
PyNone == [t |-> "NoneType", v |-> "None"]

LOOKUP_SEP == "__"

\* The recognised lookup kinds (the keys of django's QUERY_TERMS); three of
\* them stand for the whole table.
QUERY_TERMS == {"exact", "startswith", "year"}

\* str.split(sep): the segments of s between the occurrences of sep.
RECURSIVE split(_, _)
split(s, sep) ==
    IF s = <<>> THEN << <<>> >>
    ELSE LET rest == split(Tail(s), sep)
         IN  IF Head(s) = sep
             THEN << <<>> >> \o rest
             ELSE << <<Head(s)>> \o Head(rest) >> \o Tail(rest)

\* "%s%s%s" % (name, LOOKUP_SEP, filter_type)
lookup_expr(name, filter_type) == name \o <<LOOKUP_SEP, filter_type>>

-----------------------------------------------------------------------------
(* The outcome of a call: a returned value or the exception it raised *)

Returned(x) == [error |-> "none", value |-> x]
Raised(e) == [error |-> e, value |-> <<>>]

-----------------------------------------------------------------------------
(* Resource.__init__ and _get_available_filters *)

\* A whitelist entry (allowed_types): the string 'all', another string, a
\* list of kinds, or a value that is neither (None, a number).
EntryAll == [tag |-> "all", kinds |-> {}]
EntryStr == [tag |-> "str", kinds |-> {}]
EntryOther == [tag |-> "other", kinds |-> {}]
EntryList(ks) == [tag |-> "list", kinds |-> ks]

\* CharField(readonly=True): a field with no attribute.
NoAttribute == <<>>

ScalarField(attr) == [attribute |-> attr, readonly |-> FALSE]
ResourceUriField == [attribute |-> NoAttribute, readonly |-> TRUE]

\* A relation field to one object and a relation field to many: the
\* classes that carry is_related, and is_m2m for the second.
ToOneField(attr) == [attribute |-> attr, readonly |-> FALSE, is_related |-> TRUE]
ToManyField(attr) ==
    [attribute |-> attr, readonly |-> FALSE, is_related |-> TRUE, is_m2m |-> TRUE]

\* getattr(field_object, 'is_related', False)
is_related(field_object) == "is_related" \in DOMAIN field_object /\ field_object.is_related

\* getattr(field_object, 'is_m2m', False)
is_m2m(field_object) == "is_m2m" \in DOMAIN field_object /\ field_object.is_m2m

\* The loop of _get_available_filters over filtering.items().
RECURSIVE get_available_filters_loop(_, _, _, _)
get_available_filters_loop(flds, filtering, todo, filters) ==
    IF todo = {} THEN Returned(filters)
    ELSE LET field_name == CHOOSE n \in todo : TRUE
             allowed_types == filtering[field_name]
             rest == todo \ {field_name}
         IN  IF field_name \notin DOMAIN flds
             THEN Raised("InvalidFilterError")
             ELSE IF allowed_types.tag = "all"
             THEN get_available_filters_loop(flds, filtering, rest,
                      filters \cup {lookup_expr(field_name, t) : t \in QUERY_TERMS}
                              \cup {field_name})
             ELSE IF allowed_types.tag = "list"
             THEN IF \E t \in allowed_types.kinds : t \notin QUERY_TERMS
                  THEN Raised("InvalidFilterError")
                  ELSE get_available_filters_loop(flds, filtering, rest,
                           filters
                           \cup (IF "exact" \in allowed_types.kinds
                                 THEN {field_name} ELSE {})
                           \cup {lookup_expr(field_name, t) : t \in allowed_types.kinds})
             ELSE Raised("InvalidFilterError")

\* A variant that adds the bare field name for every entry.
get_available_filters_bare(flds, filtering) ==
    LET r == get_available_filters_loop(flds, filtering, DOMAIN filtering, {})
    IN  IF r.error = "none" THEN Returned(r.value \cup DOMAIN filtering) ELSE r

\* A variant that accepts any declaration, keeping what the loop collected.
get_available_filters_lenient(flds, filtering) ==
    LET r == get_available_filters_loop(flds, filtering, DOMAIN filtering, {})
    IN  IF r.error = "none" THEN r ELSE Returned({})

get_available_filters(flds, filtering) ==
    get_available_filters_loop(flds, filtering, DOMAIN filtering, {})

\* self.fields after __init__: the copy of base_fields plus resource_uri.
init_fields(base_fields, include_resource_uri) ==
    IF include_resource_uri /\ <<"resource_uri">> \notin DOMAIN base_fields
    THEN [n \in DOMAIN base_fields \cup {<<"resource_uri">>} |->
             IF n \in DOMAIN base_fields THEN base_fields[n] ELSE ResourceUriField]
    ELSE base_fields

-----------------------------------------------------------------------------
(* build_filters *)

\* A variant that forgets the spelling 'None'.
coerce_value_lowercase(value) ==
    IF value = PyStr("true") THEN PyTrue
    ELSE IF value = PyStr("false") THEN PyFalse
    ELSE IF value \in {PyStr("nil"), PyStr("none")} THEN PyNone
    ELSE value

\* The coercion of a filter value (lines 277-282).
coerce_value(value) ==
    IF value = PyStr("true") THEN PyTrue
    ELSE IF value = PyStr("false") THEN PyFalse
    ELSE IF value \in {PyStr("nil"), PyStr("none"), PyStr("None")} THEN PyNone
    ELSE value

\* One round of the loop of build_filters: the entry it adds, a skip, or
\* the exception it raises.
build_filter_item_code(flds, available, filter_expr, value) ==
    IF filter_expr \notin available THEN [error |-> "none", skip |-> TRUE, key |-> <<>>, value |-> value]
    ELSE LET bits == split(filter_expr, LOOKUP_SEP)
             tail == bits[Len(bits)]
             popped == Len(tail) = 1 /\ tail[1] \in QUERY_TERMS
             filter_type == IF popped THEN tail[1] ELSE "exact"
             filter_bits == IF popped THEN SubSeq(bits, 1, Len(bits) - 1) ELSE bits
         IN  IF Len(filter_bits) > 1
             THEN [error |-> "InvalidFilterError", skip |-> FALSE, key |-> <<>>, value |-> value]
             ELSE IF Len(filter_bits) = 0
             THEN [error |-> "IndexError", skip |-> FALSE, key |-> <<>>, value |-> value]
             ELSE IF filter_bits[1] \notin DOMAIN flds
             THEN [error |-> "KeyError", skip |-> FALSE, key |-> <<>>, value |-> value]
             ELSE IF flds[filter_bits[1]].attribute = NoAttribute
             THEN [error |-> "InvalidFilterError", skip |-> FALSE, key |-> <<>>, value |-> value]
             ELSE [error |-> "none", skip |-> FALSE,
                   key |-> lookup_expr(flds[filter_bits[1]].attribute, filter_type),
                   value |-> coerce_value(value)]

\* A variant that rejects an expression it does not recognise.
build_filter_item_strict(flds, available, filter_expr, value) ==
    IF filter_expr \notin available
    THEN [error |-> "InvalidFilterError", skip |-> FALSE, key |-> <<>>, value |-> value]
    ELSE build_filter_item_code(flds, available, filter_expr, value)

\* A variant that checks the depth of the lookup before the whitelist.
build_filter_item_depth_first(flds, available, filter_expr, value) ==
    IF Len(split(filter_expr, LOOKUP_SEP)) > 2
    THEN [error |-> "InvalidFilterError", skip |-> FALSE, key |-> <<>>, value |-> value]
    ELSE build_filter_item_code(flds, available, filter_expr, value)

build_filter_item(flds, available, filter_expr, value) ==
    build_filter_item_code(flds, available, filter_expr, value)

\* qs_filters[qs_filter] = value
dict_set(d, k, v) == [x \in DOMAIN d \cup {k} |-> IF x = k THEN v ELSE d[x]]

EmptyDict == [x \in {} |-> PyNone]

\* build_filters over filters.items() in the order items gives them.
RECURSIVE build_filters_loop(_, _, _, _)
build_filters_loop(flds, available, items, qs_filters) ==
    IF items = <<>> THEN Returned(qs_filters)
    ELSE LET r == build_filter_item(flds, available, Head(items).expr, Head(items).value)
         IN  IF r.error # "none" THEN Raised(r.error)
             ELSE IF r.skip THEN build_filters_loop(flds, available, Tail(items), qs_filters)
             ELSE build_filters_loop(flds, available, Tail(items),
                                     dict_set(qs_filters, r.key, r.value))

build_filters(flds, available, items) ==
    build_filters_loop(flds, available, items, EmptyDict)

-----------------------------------------------------------------------------
(* The backend of a ModelResource: Meta.queryset *)

\* The primary keys of the table; a key is the digit string of the URL.
Keys == {<<"1">>, <<"2">>}

\* self._meta.object_class(): a new, unsaved object.
NewObject == [a \in {<<"headline">>} |-> PyStr("")]

Absent == [exists |-> FALSE, obj |-> NewObject]
Row(o) == [exists |-> TRUE, obj |-> o]

\* queryset.get(pk=key).  A queryset that joins a many-valued relation yields
\* the rows of m.duplicated more than once.
queryset_get(m, st, key) ==
    IF key \notin Keys \/ ~st[key].exists THEN Raised("ObjectDoesNotExist")
    ELSE IF key \in m.duplicated THEN Raised("MultipleObjectsReturned")
    ELSE Returned(st[key].obj)

\* One term of queryset.filter(**terms); the model gives 'exact' its meaning.
queryset_lookup(obj, key, value) ==
    LET bits == split(key, LOOKUP_SEP)
    IN  CASE Len(bits) = 2 /\ bits[2] = <<"exact">> /\ bits[1] \in DOMAIN obj ->
             obj[bits[1]] = value

\* queryset.filter(**terms): the keys of the rows that match every term.
queryset_filter(st, terms) ==
    {k \in Keys : st[k].exists /\ \A key \in DOMAIN terms : queryset_lookup(st[k].obj, key, terms[key])}

\* The key the database gives a row saved without one: the first free one.
next_pk(st) == IF ~st[<<"1">>].exists THEN <<"1">> ELSE <<"2">>

-----------------------------------------------------------------------------
(* Hydration and dehydration, as far as the handlers need them *)

\* field_object.hydrate(bundle): the value the representation holds.
field_hydrate(field_name, data) ==
    IF field_name \in DOMAIN data THEN data[field_name] ELSE PyNone

\* field_object.dehydrate(bundle): the value of the attribute.
field_dehydrate(field_object, obj) ==
    IF field_object.attribute \in DOMAIN obj THEN obj[field_object.attribute] ELSE PyNone

\* field_object.hydrate(bundle) of any field: a relation field wraps what
\* the representation names in a bundle (one) or a list of bundles (many).
hydrate_value(field_object, field_name, data) ==
    IF is_related(field_object) /\ field_hydrate(field_name, data) # PyNone
    THEN [t |-> IF is_m2m(field_object) THEN "BundleList" ELSE "Bundle",
          v |-> field_hydrate(field_name, data).v]
    ELSE field_hydrate(field_name, data)

\* value.obj: the related object a wrapper bundle holds.
bundle_obj(value) == [t |-> "Related", v |-> value.v]

\* setattr(obj, name, value)
setattr(obj, name, value) ==
    [a \in DOMAIN obj \cup {name} |-> IF a = name THEN value ELSE obj[a]]

\* ''.join(tokens): the string a token sequence spells.
RECURSIVE join(_)
join(s) == IF s = <<>> THEN "" ELSE Head(s) \o join(Tail(s))

\* ModelResource.get_resource_uri: the detail URI of a key (the pattern of
\* api_dispatch_detail, line 127).
get_resource_uri(key) == "note/" \o join(key) \o "/"

\* A step of full_dehydrate, for the record of what ran in which order.
Event(kind, field_name) == [kind |-> kind, field |-> field_name]

\* The bundle full_dehydrate works on, with the record of its passes.
NewBundle(key) == [pk |-> key, data |-> EmptyDict, events |-> <<>>, seen |-> EmptyDict]

\* self.fields.items() when nothing asks for an order: some enumeration of
\* the dict.
RECURSIVE items_order(_)
items_order(names) ==
    IF names = {} THEN <<>>
    ELSE LET n == CHOOSE x \in names : TRUE
         IN  <<n>> \o items_order(names \ {n})

\* The first loop of full_dehydrate (lines 338-344): the default value of
\* every field, in the order of self.fields.items().
RECURSIVE dehydrate_fields(_, _, _, _)
dehydrate_fields(flds, order, obj, bundle) ==
    IF order = <<>> THEN bundle
    ELSE dehydrate_fields(flds, Tail(order), obj,
             [bundle EXCEPT !.data = dict_set(@, Head(order), field_dehydrate(flds[Head(order)], obj)),
                            !.events = Append(@, Event("field", Head(order)))])

\* getattr(self, "dehydrate_%s" % field_name, None): Resource defines
\* dehydrate_resource_uri (line 432), a subclass the hooks of its Meta.
has_dehydrate_method(m, field_name) ==
    field_name = <<"resource_uri">> \/ field_name \in m.dehydrate_hooks

\* method(bundle): a hook of a subclass hands back what it saw of the
\* bundle; dehydrate_resource_uri (lines 432-438) the URI, '' when
\* get_resource_uri is not implemented.
dehydrate_method(m, field_name, bundle) ==
    IF field_name \in m.dehydrate_hooks THEN [t |-> "seen", v |-> bundle.data]
    ELSE IF m.implemented THEN PyStr(get_resource_uri(bundle.pk))
    ELSE PyStr("")

\* An overrides loop that calls each hook on the defaults alone, before the
\* other fields are in the bundle.
RECURSIVE dehydrate_overrides_interleaved(_, _, _)
dehydrate_overrides_interleaved(m, order, bundle) ==
    IF order = <<>> THEN bundle
    ELSE IF has_dehydrate_method(m, Head(order))
    THEN dehydrate_overrides_interleaved(m, Tail(order),
             [bundle EXCEPT !.data = dict_set(@, Head(order),
                                dehydrate_method(m, Head(order),
                                    [bundle EXCEPT !.data = [x \in {Head(order)} |-> bundle.data[x]]])),
                            !.events = Append(@, Event("hook", Head(order)))])
    ELSE dehydrate_overrides_interleaved(m, Tail(order), bundle)

\* The second loop of full_dehydrate (lines 346-351): the optional
\* overrides, in the same order.
RECURSIVE dehydrate_overrides(_, _, _)
dehydrate_overrides(m, order, bundle) ==
    IF order = <<>> THEN bundle
    ELSE IF has_dehydrate_method(m, Head(order))
    THEN dehydrate_overrides(m, Tail(order),
             [bundle EXCEPT !.data = dict_set(@, Head(order), dehydrate_method(m, Head(order), bundle)),
                            !.events = Append(@, Event("hook", Head(order)))])
    ELSE dehydrate_overrides(m, Tail(order), bundle)

\* self.dehydrate(bundle) (lines 353, 356-357): the hook of the resource; it
\* is recorded with what it saw, and it leaves the data as it is.
dehydrate(bundle) ==
    [bundle EXCEPT !.seen = bundle.data, !.events = Append(@, Event("dehydrate", <<>>))]

\* full_dehydrate (lines 330-354) with the order self.fields.items() gives.
full_dehydrate_passes(m, flds, order, key, obj) ==
    dehydrate(dehydrate_overrides(m, order, dehydrate_fields(flds, order, obj, NewBundle(key))))

\* full_dehydrate (lines 330-354): the bundle of a stored object.
full_dehydrate(m, flds, key, obj) ==
    LET bundle == full_dehydrate_passes(m, flds, items_order(DOMAIN flds), key, obj)
    IN  [pk |-> bundle.pk, data |-> bundle.data]

-----------------------------------------------------------------------------
(* The passes of full_hydrate and hydrate_m2m *)

\* Bundle(obj, data): has_obj is false when obj is None.
Bundle(has_obj, obj, data) ==
    [has_obj |-> has_obj, obj |-> obj, data |-> data, events |-> <<>>, seen |-> EmptyDict]

\* One turn of a first loop that writes whatever the field hydrates to,
\* null included.
hydrate_field_writes_null(field_object, field_name, obj, data) ==
    IF field_object.attribute = NoAttribute THEN obj
    ELSE IF ~is_related(field_object)
    THEN setattr(obj, field_object.attribute, hydrate_value(field_object, field_name, data))
    ELSE IF hydrate_value(field_object, field_name, data) = PyNone THEN obj
    ELSE IF ~is_m2m(field_object)
    THEN setattr(obj, field_object.attribute,
                 bundle_obj(hydrate_value(field_object, field_name, data)))
    ELSE obj

\* One turn of the first loop of full_hydrate (lines 368-377): what it
\* makes of the object.
hydrate_field(field_object, field_name, obj, data) ==
    IF field_object.attribute = NoAttribute THEN obj
    ELSE IF hydrate_value(field_object, field_name, data) = PyNone THEN obj
    ELSE IF ~is_related(field_object)
    THEN setattr(obj, field_object.attribute, hydrate_value(field_object, field_name, data))
    ELSE IF ~is_m2m(field_object)
    THEN setattr(obj, field_object.attribute,
                 bundle_obj(hydrate_value(field_object, field_name, data)))
    ELSE obj

\* The first loop of full_hydrate (lines 367-377), in the order of
\* self.fields.items().
RECURSIVE hydrate_fields(_, _, _)
hydrate_fields(flds, order, bundle) ==
    IF order = <<>> THEN bundle
    ELSE hydrate_fields(flds, Tail(order),
             [bundle EXCEPT !.obj = hydrate_field(flds[Head(order)], Head(order), @, bundle.data),
                            !.events = Append(@, Event("field", Head(order)))])

\* getattr(self, "hydrate_%s" % field_name, None): the hooks of the
\* subclass.
has_hydrate_method(m, field_name) == field_name \in m.hydrate_hooks

\* The second loop of full_hydrate (lines 379-383): each hook is recorded
\* with the object it saw, and leaves the bundle as it is.
RECURSIVE hydrate_overrides(_, _, _)
hydrate_overrides(m, order, bundle) ==
    IF order = <<>> THEN bundle
    ELSE IF has_hydrate_method(m, Head(order))
    THEN hydrate_overrides(m, Tail(order),
             [bundle EXCEPT !.seen = dict_set(@, Head(order), bundle.obj),
                            !.events = Append(@, Event("hook", Head(order)))])
    ELSE hydrate_overrides(m, Tail(order), bundle)

\* self.hydrate(bundle) (lines 385, 388-389): the hook of the resource.
hydrate(bundle) == [bundle EXCEPT !.events = Append(@, Event("hydrate", <<>>))]

\* Lines 364-365 of full_hydrate: a bundle without object gets a new one.
with_object(bundle) ==
    IF bundle.has_obj THEN bundle ELSE [bundle EXCEPT !.has_obj = TRUE, !.obj = NewObject]

\* full_hydrate (lines 359-386) with the order self.fields.items() gives.
full_hydrate_passes(m, flds, order, bundle) ==
    hydrate(hydrate_overrides(m, order, hydrate_fields(flds, order, with_object(bundle))))

\* full_hydrate (lines 359-386).
full_hydrate(m, flds, bundle) ==
    full_hydrate_passes(m, flds, items_order(DOMAIN flds), bundle)

\* field_object.hydrate_m2m(bundle): the list of bundles of the related
\* objects the representation names, empty when it names none.
field_hydrate_m2m(field_name, data) ==
    [t |-> "BundleList",
     v |-> IF field_hydrate(field_name, data) = PyNone THEN ""
           ELSE field_hydrate(field_name, data).v]

\* A first loop of hydrate_m2m that resolves every relation field, the
\* fields to one object included.
RECURSIVE hydrate_m2m_fields_all_relations(_, _, _)
hydrate_m2m_fields_all_relations(flds, order, bundle) ==
    IF order = <<>> THEN bundle
    ELSE IF is_related(flds[Head(order)]) /\ flds[Head(order)].attribute # NoAttribute
    THEN hydrate_m2m_fields_all_relations(flds, Tail(order),
             [bundle EXCEPT !.data = dict_set(@, Head(order),
                                         field_hydrate_m2m(Head(order), bundle.data)),
                            !.events = Append(@, Event("m2m", Head(order)))])
    ELSE hydrate_m2m_fields_all_relations(flds, Tail(order), bundle)

\* The first loop of hydrate_m2m (lines 398-407).
RECURSIVE hydrate_m2m_fields(_, _, _)
hydrate_m2m_fields(flds, order, bundle) ==
    IF order = <<>> THEN bundle
    ELSE IF is_m2m(flds[Head(order)]) /\ flds[Head(order)].attribute # NoAttribute
    THEN hydrate_m2m_fields(flds, Tail(order),
             [bundle EXCEPT !.data = dict_set(@, Head(order),
                                         field_hydrate_m2m(Head(order), bundle.data)),
                            !.events = Append(@, Event("m2m", Head(order)))])
    ELSE hydrate_m2m_fields(flds, Tail(order), bundle)

\* The second loop of hydrate_m2m (lines 409-416): the hooks of the fields
\* to many.
RECURSIVE hydrate_m2m_overrides(_, _, _, _)
hydrate_m2m_overrides(m, flds, order, bundle) ==
    IF order = <<>> THEN bundle
    ELSE IF is_m2m(flds[Head(order)]) /\ has_hydrate_method(m, Head(order))
    THEN hydrate_m2m_overrides(m, flds, Tail(order),
             [bundle EXCEPT !.seen = dict_set(@, Head(order), bundle.obj),
                            !.events = Append(@, Event("m2m_hook", Head(order)))])
    ELSE hydrate_m2m_overrides(m, flds, Tail(order), bundle)

\* hydrate_m2m (lines 391-418) with the order self.fields.items() gives.
hydrate_m2m_passes(m, flds, order, bundle) ==
    IF ~bundle.has_obj THEN Raised("HydrationError")
    ELSE Returned(hydrate_m2m_overrides(m, flds, order,
             hydrate_m2m_fields(flds, order,
                 [bundle EXCEPT !.events = Append(@, Event("hydrate_m2m", <<>>))])))

\* hydrate_m2m (lines 391-418).
hydrate_m2m(m, flds, bundle) == hydrate_m2m_passes(m, flds, items_order(DOMAIN flds), bundle)

\* bundle.obj.save(): the row of the key is the object.
save(st, key, bundle) ==
    [store |-> [st EXCEPT ![key] = Row(bundle.obj)],
     bundle |-> [bundle EXCEPT !.events = Append(@, Event("save", <<>>))]]

\* The loop of save_m2m (lines 854-869): the related manager of each field
\* to many is cleared and given the objects of the hydrated list.
RECURSIVE save_m2m_loop(_, _, _, _)
save_m2m_loop(flds, order, obj, data) ==
    IF order = <<>> THEN obj
    ELSE IF is_m2m(flds[Head(order)]) /\ flds[Head(order)].attribute # NoAttribute
    THEN save_m2m_loop(flds, Tail(order),
             setattr(obj, flds[Head(order)].attribute,
                     [t |-> "Manager", v |-> data[Head(order)].v]), data)
    ELSE save_m2m_loop(flds, Tail(order), obj, data)

\* save_m2m (lines 854-869) on the saved row.
save_m2m(flds, saved, key, bundle) ==
    [store |-> [saved.store EXCEPT
                   ![key] = Row(save_m2m_loop(flds, items_order(DOMAIN flds), @.obj, bundle.data))],
     bundle |-> [bundle EXCEPT !.events = Append(@, Event("save_m2m", <<>>))]]

-----------------------------------------------------------------------------
(* Field objects by reference: base_fields of the class, fields of instances *)

\* A field object as the interpreter holds it: the declared field and the
\* two attributes full_dehydrate stamps on a RelatedField.
FieldObject(field) == [field |-> field, api_name |-> PyNone, resource_name |-> PyNone]

\* The place of an element in a sequence without repetitions.
index_of(seq, x) == CHOOSE i \in 1..Len(seq) : seq[i] = x

\* A copy of the table that refers to the same field objects
\* (dict.copy()).
shallow_copy(heap, table) == [heap |-> heap, table |-> table]

\* deepcopy(self.base_fields) (line 106): every field object of the table
\* is copied to a new place of the heap, and the new table refers to the
\* copies.
deepcopy(heap, table) ==
    [heap |-> heap \o [i \in 1..Cardinality(DOMAIN table) |->
                          heap[table[items_order(DOMAIN table)[i]]]],
     table |-> [n \in DOMAIN table |-> Len(heap) + index_of(items_order(DOMAIN table), n)]]

\* self.fields['resource_uri'] = CharField(readonly=True) (lines 111-112):
\* a new field object, in the table of the instance.
add_resource_uri(heap, table) ==
    IF <<"resource_uri">> \in DOMAIN table THEN [heap |-> heap, table |-> table]
    ELSE [heap |-> Append(heap, FieldObject(ResourceUriField)),
          table |-> dict_set(table, <<"resource_uri">>, Len(heap) + 1)]

\* What a table shows of its field objects: the object behind each name.
view(heap, table) == [n \in DOMAIN table |-> heap[table[n]]]

-----------------------------------------------------------------------------
(* The obj_* operations: Resource (not implemented) and ModelResource *)

Call(fn, arg) == [fn |-> fn, arg |-> arg]

\* The outcome of a backend operation: the error raised, the store after
\* it and the key of the object it worked on.
Done(st, key) == [error |-> "none", store |-> st, pk |-> key]
Failed(e, st) == [error |-> e, store |-> st, pk |-> <<>>]

\* Lines 820-821 and 835-836: full_hydrate, then the save of the object.
save_hydrated(m, flds, st, key, bundle) == save(st, key, full_hydrate(m, flds, bundle))

\* Lines 824-825 and 839-840: hydrate_m2m on the saved bundle, then
\* save_m2m on what it returns.
save_related(m, flds, key, saved) ==
    save_m2m(flds, saved, key, hydrate_m2m(m, flds, saved.bundle).value)

\* The steps obj_create and obj_update share: the store and the bundle
\* they leave.
hydrate_and_save(m, flds, st, key, bundle) ==
    save_related(m, flds, key, save_hydrated(m, flds, st, key, bundle))

\* The key obj_create saves under: the pk of its keyword arguments, or the
\* next one of the table.
create_key(st, has_pk, pk) == IF has_pk THEN pk ELSE next_pk(st)

\* obj_create (lines 479-480, 814-826).
obj_create(m, flds, st, data, has_pk, pk) ==
    IF ~m.implemented THEN Failed("NotImplementedError", st)
    ELSE Done(hydrate_and_save(m, flds, st, create_key(st, has_pk, pk),
                               Bundle(TRUE, NewObject, data)).store,
              create_key(st, has_pk, pk))

\* obj_update (lines 482-483, 828-841).
obj_update(m, flds, st, data, pk) ==
    IF ~m.implemented THEN Failed("NotImplementedError", st)
    ELSE LET got == queryset_get(m, st, pk)
         IN  IF got.error = "ObjectDoesNotExist" THEN Failed("NotFound", st)
             ELSE IF got.error # "none" THEN Failed(got.error, st)
             ELSE Done(hydrate_and_save(m, flds, st, pk, Bundle(TRUE, got.value, data)).store, pk)

\* obj_delete (lines 488-489, 846-852); Resource.obj_delete takes no
\* keyword argument, so the call itself fails there.
obj_delete(m, st, pk) ==
    IF ~m.implemented THEN Failed("TypeError", st)
    ELSE LET got == queryset_get(m, st, pk)
         IN  IF got.error = "ObjectDoesNotExist" THEN Failed("NotFound", st)
             ELSE IF got.error # "none" THEN Failed(got.error, st)
             ELSE Done([st EXCEPT ![pk] = Absent], pk)

\* obj_delete_list (lines 485-486, 843-844).
obj_delete_list(m, st) ==
    IF ~m.implemented THEN Failed("NotImplementedError", st)
    ELSE Done([k \in Keys |-> Absent], <<>>)

\* obj_get (lines 462-467, 811-812).
obj_get(m, st, key) ==
    IF ~m.implemented THEN Raised("NotImplementedError")
    ELSE queryset_get(m, st, key)

\* The keyword arguments get_list hands to obj_get_list (line 497): the
\* query string as ONE argument named 'filters'.
QueryDict == [t |-> "QueryDict", v |-> "request.GET"]

get_list_kwargs(query) == <<[expr |-> <<"filters">>, value |-> QueryDict]>>

\* obj_get_list (lines 449-450, 807-809): build_filters on the keyword
\* arguments, then queryset.filter.
obj_get_list(m, flds, available, st, kwargs) ==
    IF ~m.implemented THEN Raised("NotImplementedError")
    ELSE LET applicable_filters == build_filters(flds, available, kwargs)
         IN  IF applicable_filters.error # "none" THEN Raised(applicable_filters.error)
             ELSE Returned(queryset_filter(st, applicable_filters.value))


-----------------------------------------------------------------------------
(* The cache key and the cached lookups *)

\* "%s" % value: the text of a value; its type does not show.
format_value(value) == value.v

\* sep.join(strings)
RECURSIVE join_with(_, _)
join_with(sep, strings) ==
    IF strings = <<>> THEN ""
    ELSE IF Len(strings) = 1 THEN Head(strings)
    ELSE Head(strings) \o sep \o join_with(sep, Tail(strings))

\* The loop of generate_cache_key (lines 443-444) over kwargs.items(), in
\* the order the dict enumerates them.
smooshed(kwargs) ==
    [i \in 1..Len(kwargs) |-> join(kwargs[i].expr) \o "=" \o format_value(kwargs[i].value)]

\* generate_cache_key (lines 440-447).
generate_cache_key(m, args, kwargs) ==
    format_value(m.api_name) \o ":" \o m.resource_name \o ":" \o join_with(":", args) \o ":"
        \o join_with(":", smooshed(kwargs))

\* The values a cache holds: a model instance or a queryset.
PyObject(obj) == [t |-> "Model", v |-> obj]
PyQuerySet(keys) == [t |-> "QuerySet", v |-> keys]

\* self._meta.cache.get(cache_key): NoCache has nothing, ever.
cache_get(m, c, cache_key) ==
    IF m.cache # "NoCache" /\ cache_key \in DOMAIN c THEN c[cache_key] ELSE PyNone

\* self._meta.cache.set(cache_key, value): NoCache keeps nothing.
cache_set(m, c, cache_key, value) ==
    IF m.cache # "NoCache" THEN dict_set(c, cache_key, value) ELSE c

\* kwargs.get('obj_id') as the key of a row; no row has the key None.
kwargs_pk(kwargs) ==
    LET at == {i \in 1..Len(kwargs) : kwargs[i].expr = <<"obj_id">>}
    IN  IF at = {} THEN <<>> ELSE <<kwargs[CHOOSE i \in at : TRUE].value.v>>

\* What a cached lookup leaves: its outcome, the cache and its calls.
Looked(result, c, calls) == [result |-> result, cache |-> c, calls |-> calls]

\* The miss of a cached lookup (lines 456-458, 473-475): the backend has
\* answered with got.
cache_fill(m, c, cache_key, fn, got, value) ==
    IF got.error # "none"
    THEN Looked(Raised(got.error), c,
                <<Call("cache.get", <<cache_key>>), Call(fn, <<>>)>>)
    ELSE Looked(Returned(value), cache_set(m, c, cache_key, value),
                <<Call("cache.get", <<cache_key>>), Call(fn, <<>>), Call("cache.set", <<cache_key>>)>>)

\* A cached lookup that asks the backend whatever the cache holds.
cached_lookup_always_fetches(m, c, cache_key, fn, got, value) ==
    cache_fill(m, c, cache_key, fn, got, value)

\* The body of cached_obj_get_list and cached_obj_get once the key is
\* derived (lines 454-460, 471-477): got is what the backend answers when
\* it is asked.
cached_lookup(m, c, cache_key, fn, got, value) ==
    IF cache_get(m, c, cache_key).t # "NoneType"
    THEN Looked(Returned(cache_get(m, c, cache_key)), c, <<Call("cache.get", <<cache_key>>)>>)
    ELSE cache_fill(m, c, cache_key, fn, got, value)

\* The queryset of a list lookup, null when the lookup failed.
list_value(got) == IF got.error = "none" THEN PyQuerySet(got.value) ELSE PyNone

\* The instance of a detail lookup, null when the lookup failed.
detail_value(got) == IF got.error = "none" THEN PyObject(got.value) ELSE PyNone

\* cached_obj_get_list (lines 452-460).
cached_obj_get_list(m, flds, available, c, st, kwargs) ==
    cached_lookup(m, c, generate_cache_key(m, <<"list">>, kwargs), "obj_get_list",
                  obj_get_list(m, flds, available, st, kwargs),
                  list_value(obj_get_list(m, flds, available, st, kwargs)))

\* cached_obj_get (lines 469-477).
cached_obj_get(m, c, st, kwargs) ==
    cached_lookup(m, c, generate_cache_key(m, <<"detail">>, kwargs), "obj_get",
                  obj_get(m, st, kwargs_pk(kwargs)),
                  detail_value(obj_get(m, st, kwargs_pk(kwargs))))

-----------------------------------------------------------------------------
(* The cached lookups line by line, for requests that run side by side *)

\* A test of the cache's answer that takes every answer for a miss.
cache_miss_always(bundle) == TRUE

\* 'if bundle is None' (lines 456, 473).
cache_miss(bundle) == bundle.t = "NoneType"

\* The backend operation of a cached lookup (lines 457, 474).
backend_call(m, flds, available, st, kind, kwargs) ==
    IF kind = "detail" THEN obj_get(m, st, kwargs_pk(kwargs))
    ELSE obj_get_list(m, flds, available, st, kwargs)

\* The value the backend operation hands back.
backend_value(kind, got) == IF kind = "detail" THEN detail_value(got) ELSE list_value(got)

\* A request inside a cached lookup: the line it is at, its local variable
\* (obj_list or bundle), and the record of what it read from the cache,
\* what its own backend call answered, whether it wrote to the cache and
\* how it ended.
NewProcess ==
    [pc |-> "cache.get", bundle |-> PyNone, read |-> PyNone, called |-> FALSE,
     fetched |-> Returned(PyNone), wrote |-> FALSE, result |-> Returned(PyNone)]

\* cache.get(cache_key) (lines 454, 471).
process_cache_get(m, c, cache_key, process) ==
    [process EXCEPT !.bundle = cache_get(m, c, cache_key),
                    !.read = cache_get(m, c, cache_key),
                    !.pc = IF cache_miss(cache_get(m, c, cache_key)) THEN "backend" ELSE "return"]

\* The backend call (lines 457, 474) that answered got.
process_backend(kind, got, process) ==
    IF got.error # "none"
    THEN [process EXCEPT !.called = TRUE, !.fetched = Raised(got.error),
                         !.result = Raised(got.error), !.pc = "done"]
    ELSE [process EXCEPT !.called = TRUE, !.fetched = Returned(backend_value(kind, got)),
                         !.bundle = backend_value(kind, got), !.pc = "cache.set"]

\* cache.set(cache_key, bundle) (lines 458, 475), as the request sees it.
process_cache_set(process) == [process EXCEPT !.wrote = TRUE, !.pc = "return"]

\* 'return bundle' (lines 460, 477).
process_return(process) ==
    [process EXCEPT !.result = Returned(process.bundle), !.pc = "done"]

-----------------------------------------------------------------------------
(* Requests, responses and the handlers *)

Resp(cls) == [t |-> "HttpResponse", v |-> cls]
Exc(e) == [t |-> "exception", v |-> e]

\* request.method.lower()
lower(method) ==
    CASE method = "GET" -> "get"
      [] method = "POST" -> "post"
      [] method = "PUT" -> "put"
      [] method = "DELETE" -> "delete"
      [] method = "HEAD" -> "head"

\* What a handler hands back: its result (a response, another value or the
\* exception that left it), the store, the backend calls it made, the
\* bundles and keys it put in the response, and the Location header.
HR(resp, st, calls, objects, matched, location) ==
    [response |-> resp, store |-> st, calls |-> calls, objects |-> objects,
     matched |-> matched, location |-> location]

\* [self.full_dehydrate(obj=obj) for obj in to_be_serialized['objects']]
dehydrate_all(m, flds, st, keys) ==
    LET ordered == SelectSeq(<< <<"1">>, <<"2">> >>, LAMBDA k : k \in keys)
    IN  [i \in 1..Len(ordered) |-> full_dehydrate(m, flds, ordered[i], st[ordered[i]].obj)]

\* get_list (lines 491-511).
get_list(m, flds, available, st, req) ==
    LET calls == <<Call("obj_get_list", <<>>)>>
        objects == obj_get_list(m, flds, available, st, get_list_kwargs(req.query))
    IN  IF objects.error # "none"
        THEN HR(Exc(objects.error), st, calls, <<>>, {}, "")
        ELSE IF req.bad_request
        THEN HR(Resp("HttpBadRequest"), st, calls, <<>>, objects.value, "")
        ELSE HR(Resp("HttpResponse"), st, calls,
                dehydrate_all(m, flds, st, objects.value), objects.value, "")

\* get_detail (lines 513-532); the cache of Meta is NoCache, so
\* cached_obj_get is obj_get.
get_detail(m, flds, st, req) ==
    LET calls == <<Call("obj_get", req.obj_id)>>
        obj == obj_get(m, st, req.obj_id)
    IN  IF obj.error = "ObjectDoesNotExist"
        THEN HR(Resp("HttpGone"), st, calls, <<>>, {}, "")
        ELSE IF obj.error = "MultipleObjectsReturned"
        THEN HR(Resp("HttpMultipleChoices"), st, calls, <<>>, {}, "")
        ELSE IF obj.error # "none"
        THEN HR(Exc(obj.error), st, calls, <<>>, {}, "")
        ELSE IF req.bad_request
        THEN HR(Resp("HttpBadRequest"), st, calls, <<>>, {}, "")
        ELSE HR(Resp("HttpResponse"), st, calls,
                <<full_dehydrate(m, flds, req.obj_id, obj.value)>>, {req.obj_id}, "")

\* self.remove_api_resource_names(kwargs) of a detail URL: obj_id alone.
detail_kwargs(req) == <<[expr |-> <<"obj_id">>, value |-> PyStr(join(req.obj_id))]>>

\* The rest of get_detail (lines 519-532) once cached_obj_get has ended as
\* looked: the response, and the cache the lookup left.
get_detail_respond(m, flds, st, req, looked) ==
    [cache |-> looked.cache,
     handled |->
        IF looked.result.error = "ObjectDoesNotExist"
        THEN HR(Resp("HttpGone"), st, looked.calls, <<>>, {}, "")
        ELSE IF looked.result.error = "MultipleObjectsReturned"
        THEN HR(Resp("HttpMultipleChoices"), st, looked.calls, <<>>, {}, "")
        ELSE IF looked.result.error # "none"
        THEN HR(Exc(looked.result.error), st, looked.calls, <<>>, {}, "")
        ELSE IF req.bad_request
        THEN HR(Resp("HttpBadRequest"), st, looked.calls, <<>>, {}, "")
        ELSE HR(Resp("HttpResponse"), st, looked.calls,
                <<full_dehydrate(m, flds, req.obj_id, looked.result.value.v)>>,
                {req.obj_id}, "")]

\* get_detail (lines 513-532) over the cache c of Meta.
get_detail_cached(m, flds, c, st, req) ==
    get_detail_respond(m, flds, st, req, cached_obj_get(m, c, st, detail_kwargs(req)))

\* The loop of put_list (lines 546-553).
RECURSIVE put_list_loop(_, _, _, _, _)
put_list_loop(m, flds, st, objects, calls) ==
    IF objects = <<>> THEN HR(Resp("HttpAccepted"), st, calls, <<>>, {}, "")
    ELSE LET created == obj_create(m, flds, st, Head(objects), FALSE, <<>>)
             calls2 == calls \o <<Call("obj_create", <<>>)>>
         IN  IF created.error # "none"
             THEN HR(Exc(created.error), created.store, calls2, <<>>, {}, "")
             ELSE put_list_loop(m, flds, created.store, Tail(objects), calls2)

\* A put_list that keeps what is stored and only adds the collection.
put_list_append(m, flds, st, req) ==
    IF ~req.collection.has_objects
    THEN HR(Resp("HttpBadRequest"), st, <<>>, <<>>, {}, "")
    ELSE put_list_loop(m, flds, st, req.collection.objects, <<>>)

\* put_list (lines 534-555).
put_list(m, flds, st, req) ==
    IF ~req.collection.has_objects
    THEN HR(Resp("HttpBadRequest"), st, <<>>, <<>>, {}, "")
    ELSE LET deleted == obj_delete_list(m, st)
             calls == <<Call("obj_delete_list", <<>>)>>
         IN  IF deleted.error # "none"
             THEN HR(Exc(deleted.error), deleted.store, calls, <<>>, {}, "")
             ELSE put_list_loop(m, flds, deleted.store, req.collection.objects, calls)

\* put_detail whose fallback creates the object without handing on the key.
put_detail_create_unkeyed(m, flds, st, req) ==
    LET updated == obj_update(m, flds, st, req.data, req.obj_id)
        calls == <<Call("obj_update", req.obj_id)>>
    IN  IF updated.error = "none"
        THEN HR(Resp("HttpAccepted"), updated.store, calls, <<>>, {}, "")
        ELSE LET created == obj_create(m, flds, updated.store, req.data, FALSE, <<>>)
                 calls2 == calls \o <<Call("obj_create", <<>>)>>
             IN  IF created.error # "none"
                 THEN HR(Exc(created.error), created.store, calls2, <<>>, {}, "")
                 ELSE HR(Resp("HttpCreated"), created.store, calls2, <<>>, {},
                         get_resource_uri(created.pk))

\* put_detail (lines 557-575): any failure of obj_update falls to obj_create.
put_detail(m, flds, st, req) ==
    LET updated == obj_update(m, flds, st, req.data, req.obj_id)
        calls == <<Call("obj_update", req.obj_id)>>
    IN  IF updated.error = "none"
        THEN HR(Resp("HttpAccepted"), updated.store, calls, <<>>, {}, "")
        ELSE LET created == obj_create(m, flds, updated.store, req.data, TRUE, req.obj_id)
                 calls2 == calls \o <<Call("obj_create", req.obj_id)>>
             IN  IF created.error # "none"
                 THEN HR(Exc(created.error), created.store, calls2, <<>>, {}, "")
                 ELSE HR(Resp("HttpCreated"), created.store, calls2, <<>>, {},
                         get_resource_uri(created.pk))

\* post_list (lines 577-589).
post_list(m, flds, st, req) ==
    LET created == obj_create(m, flds, st, req.data, FALSE, <<>>)
        calls == <<Call("obj_create", <<>>)>>
    IN  IF created.error # "none"
        THEN HR(Exc(created.error), created.store, calls, <<>>, {}, "")
        ELSE HR(Resp("HttpCreated"), created.store, calls, <<>>, {},
                get_resource_uri(created.pk))

\* post_detail (lines 591-598), or the override of a subclass that acts and
\* returns nothing.
post_detail(m, st) ==
    IF m.post_detail_overridden
    THEN HR(PyNone, st, <<>>, <<>>, {}, "")
    ELSE HR(Resp("HttpNotImplemented"), st, <<>>, <<>>, {}, "")

\* delete_list (lines 600-605).
delete_list(m, st) ==
    LET deleted == obj_delete_list(m, st)
        calls == <<Call("obj_delete_list", <<>>)>>
    IN  IF deleted.error # "none"
        THEN HR(Exc(deleted.error), deleted.store, calls, <<>>, {}, "")
        ELSE HR(Resp("HttpAccepted"), deleted.store, calls, <<>>, {}, "")

\* A delete_detail that answers Accepted whether or not obj_delete failed.
delete_detail_accept_always(m, st, req) ==
    LET deleted == obj_delete(m, st, req.obj_id)
        calls == <<Call("obj_delete", req.obj_id)>>
    IN  HR(Resp("HttpAccepted"), deleted.store, calls, <<>>, {}, "")

\* delete_detail (lines 607-615): any failure of obj_delete is Gone.
delete_detail(m, st, req) ==
    LET deleted == obj_delete(m, st, req.obj_id)
        calls == <<Call("obj_delete", req.obj_id)>>
    IN  IF deleted.error # "none"
        THEN HR(Resp("HttpGone"), deleted.store, calls, <<>>, {}, "")
        ELSE HR(Resp("HttpAccepted"), deleted.store, calls, <<>>, {}, "")

\* The methods getattr(self, "%s_%s" % (request_method, request_type)) finds.
HandlerNames ==
    {<<"get", "list">>, <<"get", "detail">>, <<"put", "list">>, <<"put", "detail">>,
     <<"post", "list">>, <<"post", "detail">>, <<"delete", "list">>, <<"delete", "detail">>}

\* method(request, **kwargs)
run_handler(m, flds, available, st, request_method, request_type, req) ==
    CASE request_method = "get" /\ request_type = "list" -> get_list(m, flds, available, st, req)
      [] request_method = "get" /\ request_type = "detail" -> get_detail(m, flds, st, req)
      [] request_method = "put" /\ request_type = "list" -> put_list(m, flds, st, req)
      [] request_method = "put" /\ request_type = "detail" -> put_detail(m, flds, st, req)
      [] request_method = "post" /\ request_type = "list" -> post_list(m, flds, st, req)
      [] request_method = "post" /\ request_type = "detail" -> post_detail(m, st)
      [] request_method = "delete" /\ request_type = "list" -> delete_list(m, st)
      [] request_method = "delete" /\ request_type = "detail" -> delete_detail(m, st, req)

-----------------------------------------------------------------------------
(* The throttle *)

\* The number of recorded accesses from which a caller is over the limit.
ThrottleAt == 2

\* throttle.should_be_throttled(identifier)
should_be_throttled(thr, identifier) == thr[identifier] >= ThrottleAt

\* throttle.accessed(identifier, ...)
accessed(thr, identifier) == [thr EXCEPT ![identifier] = @ + 1]

-----------------------------------------------------------------------------
(* dispatch, get_schema and get_multiple *)

\* What an endpoint leaves: the response (or the exception that left it),
\* the store, the throttle and the collaborators it called, in order.
Out(resp, st, thr, calls, h) ==
    [response |-> resp, store |-> st, throttle |-> thr, calls |-> calls,
     objects |-> h.objects, matched |-> h.matched, location |-> h.location,
     not_found |-> <<>>, has_not_found |-> FALSE]

NoHandler(st) == HR(PyNone, st, <<>>, <<>>, {}, "")

\* A tail of dispatch that hands back whatever the handler returned.
dispatch_execute_unnormalized(thr, request_method, request_type, req, calls, h) ==
    LET ran == calls \o <<Call(request_method \o "_" \o request_type, <<>>)>> \o h.calls
        recorded == ran \o <<Call("accessed", req.caller)>>
    IN  IF h.response.t = "exception"
        THEN Out(h.response, h.store, thr, ran, h)
        ELSE Out(h.response, h.store, accessed(thr, req.caller), recorded, h)

\* A tail of dispatch that records the access whatever left the handler.
dispatch_execute_always_records(thr, request_method, request_type, req, calls, h) ==
    LET ran == calls \o <<Call(request_method \o "_" \o request_type, <<>>)>> \o h.calls
        recorded == ran \o <<Call("accessed", req.caller)>>
    IN  IF h.response.t = "exception" \/ h.response.t = "HttpResponse"
        THEN Out(h.response, h.store, accessed(thr, req.caller), recorded, h)
        ELSE Out(Resp("HttpAccepted"), h.store, accessed(thr, req.caller), recorded, h)

\* The tail of dispatch once the handler has run (lines 183-194): h is what
\* method(request, **kwargs) handed back.
dispatch_execute(thr, request_method, request_type, req, calls, h) ==
    LET ran == calls \o <<Call(request_method \o "_" \o request_type, <<>>)>> \o h.calls
        recorded == ran \o <<Call("accessed", req.caller)>>
    IN  IF h.response.t = "exception"
        THEN Out(h.response, h.store, thr, ran, h)
        ELSE IF h.response.t # "HttpResponse"
        THEN Out(Resp("HttpAccepted"), h.store, accessed(thr, req.caller), recorded, h)
        ELSE Out(h.response, h.store, accessed(thr, req.caller), recorded, h)

\* The authentication and throttle gates (lines 167-179, 626-637, 660-671);
\* "passed" or the response that ends the request.
auth_gate(req, unauthorized) ==
    IF req.auth_result.t = "HttpResponse" THEN req.auth_result
    ELSE IF req.auth_result # PyTrue THEN Resp(unauthorized)
    ELSE PyTrue

\* A dispatch that checks the throttle before it authenticates.
dispatch_throttle_first(m, flds, available, st, thr, request_type, req) ==
    LET request_method == lower(req.method)
        allowed_methods == IF request_type = "list" THEN m.list_allowed_methods
                           ELSE m.detail_allowed_methods
        throttled == <<Call("should_be_throttled", req.caller)>>
        authed == throttled \o <<Call("is_authenticated", req.caller)>>
        checked == <<Call("is_authenticated", req.caller), Call("should_be_throttled", req.caller)>>
    IN  IF request_method \notin allowed_methods
        THEN Out(Resp("HttpMethodNotAllowed"), st, thr, <<>>, NoHandler(st))
        ELSE IF <<request_method, request_type>> \notin HandlerNames
        THEN Out(Resp("HttpNotImplemented"), st, thr, <<>>, NoHandler(st))
        ELSE IF should_be_throttled(thr, req.caller)
        THEN Out(Resp("HttpForbidden"), st, thr, throttled, NoHandler(st))
        ELSE IF auth_gate(req, "HttpUnauthorized") # PyTrue
        THEN Out(auth_gate(req, "HttpUnauthorized"), st, thr, authed, NoHandler(st))
        ELSE dispatch_execute(thr, request_method, request_type, req, checked,
                 run_handler(m, flds, available, st, request_method, request_type, req))

\* A dispatch that authenticates before it looks at the allowed methods.
dispatch_auth_first(m, flds, available, st, thr, request_type, req) ==
    LET request_method == lower(req.method)
        allowed_methods == IF request_type = "list" THEN m.list_allowed_methods
                           ELSE m.detail_allowed_methods
        authed == <<Call("is_authenticated", req.caller)>>
        checked == authed \o <<Call("should_be_throttled", req.caller)>>
    IN  IF auth_gate(req, "HttpUnauthorized") # PyTrue
        THEN Out(auth_gate(req, "HttpUnauthorized"), st, thr, authed, NoHandler(st))
        ELSE IF request_method \notin allowed_methods
        THEN Out(Resp("HttpMethodNotAllowed"), st, thr, <<>>, NoHandler(st))
        ELSE IF <<request_method, request_type>> \notin HandlerNames
        THEN Out(Resp("HttpNotImplemented"), st, thr, <<>>, NoHandler(st))
        ELSE IF should_be_throttled(thr, req.caller)
        THEN Out(Resp("HttpForbidden"), st, thr, checked, NoHandler(st))
        ELSE dispatch_execute(thr, request_method, request_type, req, checked,
                 run_handler(m, flds, available, st, request_method, request_type, req))

\* dispatch (lines 155-194).
dispatch(m, flds, available, st, thr, request_type, req) ==
    LET request_method == lower(req.method)
        allowed_methods == IF request_type = "list" THEN m.list_allowed_methods
                           ELSE m.detail_allowed_methods
        authed == <<Call("is_authenticated", req.caller)>>
        checked == authed \o <<Call("should_be_throttled", req.caller)>>
    IN  IF request_method \notin allowed_methods
        THEN Out(Resp("HttpMethodNotAllowed"), st, thr, <<>>, NoHandler(st))
        ELSE IF <<request_method, request_type>> \notin HandlerNames
        THEN Out(Resp("HttpNotImplemented"), st, thr, <<>>, NoHandler(st))
        ELSE IF auth_gate(req, "HttpUnauthorized") # PyTrue
        THEN Out(auth_gate(req, "HttpUnauthorized"), st, thr, authed, NoHandler(st))
        ELSE IF should_be_throttled(thr, req.caller)
        THEN Out(Resp("HttpForbidden"), st, thr, checked, NoHandler(st))
        ELSE dispatch_execute(thr, request_method, request_type, req, checked,
                 run_handler(m, flds, available, st, request_method, request_type, req))

\* A get_schema that authenticates before it looks at the verb.
get_schema_auth_first(m, flds, st, thr, req) ==
    LET request_method == lower(req.method)
        authed == <<Call("is_authenticated", req.caller)>>
        checked == authed \o <<Call("should_be_throttled", req.caller)>>
        recorded == checked \o <<Call("accessed", req.caller)>>
    IN  IF auth_gate(req, "HttpUnauthorized") # PyTrue
        THEN Out(auth_gate(req, "HttpUnauthorized"), st, thr, authed, NoHandler(st))
        ELSE IF request_method # "get"
        THEN Out(Resp("HttpMethodNotAllowed"), st, thr, <<>>, NoHandler(st))
        ELSE IF should_be_throttled(thr, req.caller)
        THEN Out(Resp("HttpForbidden"), st, thr, checked, NoHandler(st))
        ELSE IF req.bad_request
        THEN Out(Resp("HttpBadRequest"), st, accessed(thr, req.caller), recorded, NoHandler(st))
        ELSE Out(Resp("HttpResponse"), st, accessed(thr, req.caller), recorded, NoHandler(st))

\* get_schema (lines 617-649).
get_schema(m, flds, st, thr, req) ==
    LET request_method == lower(req.method)
        authed == <<Call("is_authenticated", req.caller)>>
        checked == authed \o <<Call("should_be_throttled", req.caller)>>
        recorded == checked \o <<Call("accessed", req.caller)>>
    IN  IF request_method # "get"
        THEN Out(Resp("HttpMethodNotAllowed"), st, thr, <<>>, NoHandler(st))
        ELSE IF auth_gate(req, "HttpUnauthorized") # PyTrue
        THEN Out(auth_gate(req, "HttpUnauthorized"), st, thr, authed, NoHandler(st))
        ELSE IF should_be_throttled(thr, req.caller)
        THEN Out(Resp("HttpForbidden"), st, thr, checked, NoHandler(st))
        ELSE IF req.bad_request
        THEN Out(Resp("HttpBadRequest"), st, accessed(thr, req.caller), recorded, NoHandler(st))
        ELSE Out(Resp("HttpResponse"), st, accessed(thr, req.caller), recorded, NoHandler(st))

\* The loop of get_multiple (lines 678-684) over the ids left to fetch.
RECURSIVE get_multiple_loop(_, _, _, _, _, _, _)
get_multiple_loop(m, flds, st, repr_ids, objects, not_found, calls) ==
    IF repr_ids = <<>>
    THEN [error |-> "none", objects |-> objects, not_found |-> not_found, calls |-> calls]
    ELSE LET obj_id == Head(repr_ids)
             obj == obj_get(m, st, obj_id)
             calls2 == calls \o <<Call("obj_get", obj_id)>>
         IN  IF obj.error = "none"
             THEN get_multiple_loop(m, flds, st, Tail(repr_ids),
                      Append(objects, full_dehydrate(m, flds, obj_id, obj.value)),
                      not_found, calls2)
             ELSE IF obj.error = "ObjectDoesNotExist"
             THEN get_multiple_loop(m, flds, st, Tail(repr_ids), objects,
                                    Append(not_found, obj_id), calls2)
             ELSE [error |-> obj.error, objects |-> objects, not_found |-> not_found,
                   calls |-> calls2]

\* get_multiple (lines 651-702).
get_multiple(m, flds, st, thr, req) ==
    LET request_method == lower(req.method)
        authed == <<Call("is_authenticated", req.caller)>>
        checked == authed \o <<Call("should_be_throttled", req.caller)>>
        repr_ids == split(req.id_list, ";")
        got == get_multiple_loop(m, flds, st, repr_ids, <<>>, <<>>, checked)
        recorded == got.calls \o <<Call("accessed", req.caller)>>
        body(resp, thr2, calls) ==
            [response |-> resp, store |-> st, throttle |-> thr2, calls |-> calls,
             objects |-> got.objects, matched |-> {}, location |-> "",
             not_found |-> got.not_found, has_not_found |-> Len(got.not_found) # 0]
    IN  IF request_method # "get"
        THEN Out(Resp("HttpMethodNotAllowed"), st, thr, <<>>, NoHandler(st))
        ELSE IF auth_gate(req, "HttpForbidden") # PyTrue
        THEN Out(auth_gate(req, "HttpForbidden"), st, thr, authed, NoHandler(st))
        ELSE IF should_be_throttled(thr, req.caller)
        THEN Out(Resp("HttpBadRequest"), st, thr, checked, NoHandler(st))
        ELSE IF got.error # "none"
        THEN Out(Exc(got.error), st, thr, got.calls, NoHandler(st))
        ELSE IF req.bad_request
        THEN body(Resp("HttpBadRequest"), accessed(thr, req.caller), recorded)
        ELSE body(Resp("HttpResponse"), accessed(thr, req.caller), recorded)

-----------------------------------------------------------------------------
(* The resources of the model: class-level declarations *)

\* The longest mapping handed to build_filters.
MaxFilters == 2

\* A resource class whose schema has a field with another attribute name, a
\* field named like a lookup kind and a field whose name holds the separator.
FilterSchema ==
    [n \in {<<"title">>, <<"year">>, <<"a", "__", "b">>} |->
        IF n = <<"title">> THEN ScalarField(<<"headline">>)
        ELSE IF n = <<"year">> THEN ScalarField(<<"pub_year">>)
        ELSE ScalarField(<<"ab">>)]

WhitelistNames ==
    {<<"title">>, <<"year">>, <<"a", "__", "b">>, <<"resource_uri">>, <<"ghost">>}

EntryChoices ==
    {EntryAll, EntryStr, EntryOther, EntryList({}), EntryList({"exact"}),
     EntryList({"startswith"}), EntryList({"exact", "startswith"}),
     EntryList({"exact", "bogus"})}

\* Meta.filtering: no entry, one entry, or one of a few pairs of entries.
FilteringChoices ==
    {<<>>}
    \cup {[n \in {w} |-> e] : w \in WhitelistNames, e \in EntryChoices}
    \cup {[n \in {<<"title">>, w} |-> IF n = <<"title">> THEN EntryList({"exact"}) ELSE e] :
             w \in {<<"year">>, <<"a", "__", "b">>, <<"ghost">>},
             e \in {EntryAll, EntryList({"exact"}), EntryList({"exact", "bogus"})}}

AllMethods == {"get", "post", "put", "delete"}

FilterMetas ==
    {[base_fields |-> FilterSchema, filtering |-> f,
      list_allowed_methods |-> AllMethods, detail_allowed_methods |-> AllMethods,
      implemented |-> TRUE, duplicated |-> {}, post_detail_overridden |-> FALSE,
      api_name |-> PyNone, resource_name |-> "note", cache |-> "NoCache",
      hydrate_hooks |-> {}, dehydrate_hooks |-> {}] :
        f \in FilteringChoices}

\* The resource classes the requests are served by: a ModelResource with the
\* default Meta; one with narrower method lists and a queryset that yields
\* row 2 twice; one that allows no GET and overrides post_detail; and a
\* Resource that implements none of the obj_* operations.
DispatchSchema == [n \in {<<"title">>} |-> ScalarField(<<"headline">>)]

DispatchMetas ==
    {[base_fields |-> DispatchSchema, filtering |-> [n \in {<<"title">>} |-> EntryList({"exact"})],
      list_allowed_methods |-> AllMethods, detail_allowed_methods |-> AllMethods,
      implemented |-> TRUE, duplicated |-> {}, post_detail_overridden |-> FALSE,
      api_name |-> PyNone, resource_name |-> "note", cache |-> "NoCache",
      hydrate_hooks |-> {}, dehydrate_hooks |-> {}],
     [base_fields |-> DispatchSchema, filtering |-> [n \in {<<"title">>} |-> EntryAll],
      list_allowed_methods |-> {"get", "head"}, detail_allowed_methods |-> {"get", "put", "delete"},
      implemented |-> TRUE, duplicated |-> {<<"2">>}, post_detail_overridden |-> FALSE,
      api_name |-> PyNone, resource_name |-> "note", cache |-> "NoCache",
      hydrate_hooks |-> {}, dehydrate_hooks |-> {}],
     [base_fields |-> DispatchSchema, filtering |-> <<>>,
      list_allowed_methods |-> {"post", "put", "delete"}, detail_allowed_methods |-> {"post"},
      implemented |-> TRUE, duplicated |-> {}, post_detail_overridden |-> TRUE,
      api_name |-> PyNone, resource_name |-> "note", cache |-> "NoCache",
      hydrate_hooks |-> {}, dehydrate_hooks |-> {}],
     [base_fields |-> DispatchSchema, filtering |-> <<>>,
      list_allowed_methods |-> AllMethods, detail_allowed_methods |-> AllMethods,
      implemented |-> FALSE, duplicated |-> {}, post_detail_overridden |-> FALSE,
      api_name |-> PyNone, resource_name |-> "note", cache |-> "NoCache",
      hydrate_hooks |-> {}, dehydrate_hooks |-> {}]}

\* The longest id list of a get_multiple URL, in tokens.
MaxIdList == 3

RequestMethods == {"GET", "POST", "PUT", "DELETE", "HEAD"}

Callers == {<<"alice">>, <<"bob">>}

\* What is_authenticated may answer: True, False, a truthy value that is not
\* True, or a response of its own.
AuthResults == {PyTrue, PyFalse, PyStr("yes"), Resp("AuthChallenge")}

TitleData(v) == [n \in {<<"title">>} |-> PyStr(v)]

Payloads == {TitleData("foo"), TitleData("bar")}

NoCollection == [has_objects |-> FALSE, objects |-> <<>>]

Collections ==
    {NoCollection, [has_objects |-> TRUE, objects |-> <<>>],
     [has_objects |-> TRUE, objects |-> <<TitleData("foo")>>],
     [has_objects |-> TRUE, objects |-> <<TitleData("bar"), TitleData("foo")>>]}

Queries ==
    {<<>>, <<[expr |-> <<"title">>, value |-> PyStr("foo")]>>,
     <<[expr |-> <<"title", "__", "exact">>, value |-> PyStr("bar")]>>,
     <<[expr |-> <<"ghost">>, value |-> PyStr("foo")]>>}

\* The id lists the pattern [\d;]+ of api_get_multiple lets through, every
\* id of which is a number.
IdLists ==
    UNION {{s \in [1..n -> {"1", "2", ";"}] :
               \A i \in 1..Len(split(s, ";")) : split(s, ";")[i] # <<>>} : n \in 1..MaxIdList}

InitStores ==
    {[k \in Keys |-> Absent],
     [k \in Keys |-> IF k = <<"1">> THEN Row([a \in {<<"headline">>} |-> PyStr("foo")]) ELSE Absent],
     [k \in Keys |-> IF k = <<"1">> THEN Row([a \in {<<"headline">>} |-> PyStr("foo")])
                     ELSE Row([a \in {<<"headline">>} |-> PyStr("bar")])]}

Request(method, caller, auth_result) ==
    [method |-> method, caller |-> caller, auth_result |-> auth_result,
     obj_id |-> <<>>, id_list |-> <<>>, query |-> <<>>, data |-> EmptyDict,
     collection |-> NoCollection, bad_request |-> FALSE]

NoRequest ==
    [endpoint |-> "none", request |-> Request("GET", <<>>, PyNone),
     response |-> PyNone, calls |-> <<>>, objects |-> <<>>, matched |-> {},
     location |-> "", not_found |-> <<>>, has_not_found |-> FALSE]

Served(endpoint, req, out) ==
    [endpoint |-> endpoint, request |-> req, response |-> out.response,
     calls |-> out.calls, objects |-> out.objects, matched |-> out.matched,
     location |-> out.location, not_found |-> out.not_found,
     has_not_found |-> out.has_not_found]

\* The resource classes full_dehydrate is called on directly: a schema of
\* two fields and any choice of dehydrate_<name> methods, on a ModelResource
\* or on a Resource without get_resource_uri.
DehydrateSchema ==
    [n \in {<<"title">>, <<"year">>} |->
        IF n = <<"title">> THEN ScalarField(<<"headline">>) ELSE ScalarField(<<"pub_year">>)]

DehydrateMetas ==
    {[base_fields |-> DehydrateSchema, filtering |-> <<>>,
      list_allowed_methods |-> AllMethods, detail_allowed_methods |-> AllMethods,
      implemented |-> i, duplicated |-> {}, post_detail_overridden |-> FALSE,
      api_name |-> PyNone, resource_name |-> "note", cache |-> "NoCache",
      hydrate_hooks |-> {}, dehydrate_hooks |-> h] :
        i \in BOOLEAN, h \in SUBSET {<<"title">>, <<"year">>, <<"resource_uri">>}}

\* The objects handed to full_dehydrate; one has no pub_year.
DehydrateObjects ==
    {[a \in {<<"headline">>, <<"pub_year">>} |->
         IF a = <<"headline">> THEN PyStr("foo") ELSE PyStr("2010")],
     [a \in {<<"headline">>} |-> PyStr("bar")]}

\* The orders self.fields.items() may enumerate a dict in.
Orders(names) ==
    {o \in [1..Cardinality(names) -> names] : \A i, j \in DOMAIN o : i # j => o[i] # o[j]}

\* The most entries the cache of the model holds.
MaxCached == 2

\* The resource classes of the cached lookups: with the default NoCache or
\* a cache that keeps what it is given, over a queryset that yields row 2
\* twice, or a Resource without the obj_* operations.
CacheMetas ==
    {[base_fields |-> DispatchSchema, filtering |-> [n \in {<<"title">>} |-> EntryList({"exact"})],
      list_allowed_methods |-> AllMethods, detail_allowed_methods |-> AllMethods,
      implemented |-> i, duplicated |-> {<<"2">>}, post_detail_overridden |-> FALSE,
      api_name |-> PyNone, resource_name |-> "note", cache |-> c,
      hydrate_hooks |-> {}, dehydrate_hooks |-> {}] :
        i \in BOOLEAN, c \in {"NoCache", "SimpleCache"}}

\* The keyword arguments of a cached lookup, as kwargs.items() enumerates
\* them: the same two arguments appear in both orders.
KwargsChoices ==
    {<<[expr |-> <<"obj_id">>, value |-> PyStr("1")]>>,
     <<[expr |-> <<"obj_id">>, value |-> PyStr("2")]>>,
     <<[expr |-> <<"obj_id">>, value |-> PyStr("3")]>>,
     <<[expr |-> <<"title">>, value |-> PyStr("foo")]>>,
     <<[expr |-> <<"title", "__", "exact">>, value |-> PyStr("bar")]>>,
     <<[expr |-> <<"obj_id">>, value |-> PyStr("1")], [expr |-> <<"title">>, value |-> PyStr("foo")]>>,
     <<[expr |-> <<"title">>, value |-> PyStr("foo")], [expr |-> <<"obj_id">>, value |-> PyStr("1")]>>}

\* The resource classes of the detail endpoints over a cache: a
\* ModelResource with the default NoCache or with a cache that keeps what
\* it is given.
DetailMetas ==
    {[base_fields |-> DispatchSchema, filtering |-> <<>>,
      list_allowed_methods |-> AllMethods, detail_allowed_methods |-> AllMethods,
      implemented |-> TRUE, duplicated |-> {}, post_detail_overridden |-> FALSE,
      api_name |-> PyNone, resource_name |-> "note", cache |-> c,
      hydrate_hooks |-> {}, dehydrate_hooks |-> {}] :
        c \in {"NoCache", "SimpleCache"}}

\* The resource classes the hydration passes are called on: a scalar
\* field, a relation to one object, a relation to many, a relation to many
\* without attribute, and any choice of hydrate_<name> methods.
HydrateSchema ==
    [n \in {<<"title">>, <<"author">>, <<"tags">>, <<"labels">>} |->
        IF n = <<"title">> THEN ScalarField(<<"headline">>)
        ELSE IF n = <<"author">> THEN ToOneField(<<"writer">>)
        ELSE IF n = <<"tags">> THEN ToManyField(<<"tag_set">>)
        ELSE ToManyField(NoAttribute)]

HydrateMetas ==
    {[base_fields |-> HydrateSchema, filtering |-> <<>>,
      list_allowed_methods |-> AllMethods, detail_allowed_methods |-> AllMethods,
      implemented |-> TRUE, duplicated |-> {}, post_detail_overridden |-> FALSE,
      api_name |-> PyNone, resource_name |-> "note", cache |-> "NoCache",
      hydrate_hooks |-> h, dehydrate_hooks |-> {}] :
        h \in SUBSET {<<"title">>, <<"tags">>}}

\* What a representation may hold for a field: nothing, null or a value.
HydrateValues(n) ==
    CASE n = <<"title">> -> {PyNone, PyStr("foo")}
      [] n = <<"author">> -> {PyNone, PyStr("author/1/")}
      [] n = <<"tags">> -> {[t |-> "list", v |-> "tag/1/,tag/2/"]}
      [] n = <<"labels">> -> {[t |-> "list", v |-> "label/1/"]}

\* The representations handed to the hydration passes.
HydrateData ==
    UNION {{d \in [names -> UNION {HydrateValues(n) : n \in names}] :
               \A n \in names : d[n] \in HydrateValues(n)} :
           names \in SUBSET {<<"title">>, <<"author">>, <<"tags">>, <<"labels">>}}

\* An object that exists already: every attribute is set, one of them
\* (slug) backs no field.
StoredObject ==
    [a \in {<<"headline">>, <<"writer">>, <<"tag_set">>, <<"slug">>} |->
        IF a = <<"headline">> THEN PyStr("old")
        ELSE IF a = <<"writer">> THEN [t |-> "Related", v |-> "author/9/"]
        ELSE IF a = <<"tag_set">> THEN [t |-> "Manager", v |-> "tag/9/"]
        ELSE PyStr("s")]

\* The bundles handed to the hydration passes: without object, with a new
\* one, with an object that exists.
HydrateBundles ==
    {Bundle(FALSE, EmptyDict, d) : d \in HydrateData}
    \cup {Bundle(TRUE, o, d) : o \in {NewObject, StoredObject}, d \in HydrateData}

\* The table behind the resource: one row, with key 1.
HydrateStore == [k \in Keys |-> IF k = <<"1">> THEN Row(StoredObject) ELSE Absent]

\* The objects of the round trip: the headline is a string or null.
RoundTripObjects ==
    {[StoredObject EXCEPT ![<<"headline">>] = v] : v \in {PyStr("foo"), PyStr(""), PyNone}}

\* The instances of one resource class that serve requests side by side,
\* and the api_name each one was constructed with.
InstanceIds == {1, 2}

InstanceApiName(i) == IF i = 1 THEN PyStr("v1") ELSE PyStr("v2")

\* The class as DeclarativeMetaclass leaves it (lines 67-90): base_fields
\* refers to the field objects of the class body; no instance exists yet.
ClassInstances ==
    [heap |-> [i \in 1..Cardinality(DOMAIN HydrateSchema) |->
                  FieldObject(HydrateSchema[items_order(DOMAIN HydrateSchema)[i]])],
     base_fields |-> [n \in DOMAIN HydrateSchema |->
                         index_of(items_order(DOMAIN HydrateSchema), n)],
     inst |-> [i \in InstanceIds |->
                  [pc |-> "new", fields |-> EmptyDict, api_name |-> InstanceApiName(i)]]]

\* The requests that run a cached lookup side by side.
Processes == {1, 2}

\* The lookups they run, both the same one: a detail lookup of a key, or a
\* list lookup.
RaceLookups ==
    {[kind |-> "detail", kwargs |-> <<[expr |-> <<"obj_id">>, value |-> PyStr(join(k))]>>] :
         k \in Keys}
    \cup {[kind |-> "list", kwargs |-> <<[expr |-> <<"title">>, value |-> PyStr("foo")]>>]}

\* The query-string items a request may carry.
FilterItems ==
    {[expr |-> <<"title">>, value |-> PyStr(v)] :
         v \in {"true", "false", "nil", "none", "None", "foo"}}
    \cup {[expr |-> <<"title", "__", "exact">>, value |-> PyStr(v)] : v \in {"true", "foo"}}
    \cup {[expr |-> e, value |-> PyStr("foo")] :
             e \in {<<"title", "__", "startswith">>, <<"year">>, <<"year", "__", "exact">>,
                    <<"a", "__", "b">>, <<"a", "__", "b", "__", "exact">>,
                    <<"resource_uri">>, <<"title", "__", "year", "__", "exact">>,
                    <<"ghost">>}}

\* dict.items(): every key once, in some order.
FilterInputs ==
    UNION {{s \in [1..n -> FilterItems] :
               \A i, j \in 1..n : i # j => s[i].expr # s[j].expr} : n \in 0..MaxFilters}

-----------------------------------------------------------------------------
(* Actions *)

NoCall == [called |-> FALSE, input |-> <<>>, result |-> Returned(EmptyDict)]

NoLookup ==
    [called |-> FALSE, kind |-> "none", kwargs |-> <<>>, key |-> "",
     result |-> Returned(PyNone), calls |-> <<>>]

NoDehydrate ==
    [called |-> FALSE, order |-> <<>>, pk |-> <<>>, obj |-> NewObject, bundle |-> NewBundle(<<>>)]

\* No detail handler has written to any key yet.
NoWrites == [k \in Keys |-> "none"]

NoHydrate ==
    [called |-> FALSE, op |-> "none", order |-> <<>>, input |-> Bundle(FALSE, EmptyDict, EmptyDict),
     original |-> NewObject, result |-> Returned(Bundle(FALSE, EmptyDict, EmptyDict))]

\* No class has been declared by reference.
NoInstances == [heap |-> <<>>, base_fields |-> EmptyDict, inst |-> <<>>]

\* No request is inside a cached lookup.
NoRace == [kind |-> "none", kwargs |-> <<>>, processes |-> <<>>]

\* Resource.__init__ (lines 103-114).
Construct ==
    /\ construction = "pending"
    /\ LET flds == init_fields(meta.base_fields, TRUE)
           got == get_available_filters(flds, meta.filtering)
       IN  IF got.error = "none"
           THEN /\ construction' = "ready"
                /\ fields' = flds
                /\ available_filters' = got.value
           ELSE /\ construction' = got.error
                /\ UNCHANGED <<fields, available_filters>>
    /\ UNCHANGED <<meta, bf, backendVars, cacheVars, otherVars>>

\* A call of build_filters on a constructed resource (lines 252-287).  The
\* call changes nothing of the resource, so one call per run is observed.
CallBuildFilters ==
    /\ construction = "ready"
    /\ ~bf.called
    /\ \E items \in FilterInputs :
           bf' = [called |-> TRUE, input |-> items,
                  result |-> build_filters(fields, available_filters, items)]
    /\ UNCHANGED <<resourceVars, backendVars, cacheVars, otherVars>>

\* A call of full_dehydrate on a constructed resource (lines 330-354).  The
\* call changes nothing of the resource, so one call per run is observed.
FullDehydrate ==
    /\ construction = "ready"
    /\ ~dehydrated.called
    /\ \E order \in Orders(DOMAIN fields), key \in Keys, obj \in DehydrateObjects :
           dehydrated' = [called |-> TRUE, order |-> order, pk |-> key, obj |-> obj,
                          bundle |-> full_dehydrate_passes(meta, fields, order, key, obj)]
    /\ UNCHANGED <<resourceVars, bf, backendVars, cache, lookup, otherVars>>

\* The cached lookup has run: what it left in the cache, and its record.
Lookup(kind, kwargs, cache_key, looked) ==
    /\ Cardinality(DOMAIN looked.cache) <= MaxCached
    /\ cache' = looked.cache
    /\ lookup' = [called |-> TRUE, kind |-> kind, kwargs |-> kwargs, key |-> cache_key,
                  result |-> looked.result, calls |-> looked.calls]
    /\ UNCHANGED <<resourceVars, bf, backendVars, dehydrated, otherVars>>

\* A call of cached_obj_get (lines 469-477).
CachedObjGet ==
    /\ construction = "ready"
    /\ \E kwargs \in KwargsChoices :
           Lookup("detail", kwargs, generate_cache_key(meta, <<"detail">>, kwargs),
                  cached_obj_get(meta, cache, store, kwargs))

\* A call of cached_obj_get_list (lines 452-460).
CachedObjGetList ==
    /\ construction = "ready"
    /\ \E kwargs \in KwargsChoices :
           Lookup("list", kwargs, generate_cache_key(meta, <<"list">>, kwargs),
                  cached_obj_get_list(meta, fields, available_filters, cache, store, kwargs))

\* A call of obj_delete (lines 846-852) that finds its row: the store
\* changes behind the cache.
ObjDelete ==
    /\ construction = "ready"
    /\ \E key \in Keys :
           /\ obj_delete(meta, store, key).error = "none"
           /\ store' = obj_delete(meta, store, key).store
    /\ UNCHANGED <<resourceVars, bf, throttle, last, cacheVars, otherVars>>

\* A detail handler has run on behalf of an authenticated caller: its
\* effect on the store and the cache, the record of the request, and the
\* write it made to the key.
ServeDetail(endpoint, req, handled, c, wrote) ==
    /\ store' = handled.store
    /\ cache' = c
    /\ last' = Served(endpoint, req, Out(handled.response, handled.store, throttle,
                                        handled.calls, handled))
    /\ written' = [written EXCEPT ![req.obj_id] = IF wrote = "none" THEN @ ELSE wrote]
    /\ UNCHANGED <<resourceVars, bf, throttle, lookup, dehydrated, hydrated, instances, race>>

\* GET of a detail URL: get_detail (lines 513-532).
GetDetail ==
    /\ construction = "ready"
    /\ \E key \in Keys, bad_request \in BOOLEAN :
           LET req == [Request("GET", <<"alice">>, PyTrue) EXCEPT
                          !.obj_id = key, !.bad_request = bad_request]
               out == get_detail_cached(meta, fields, cache, store, req)
           IN  ServeDetail("get_detail", req, out.handled, out.cache, "none")

\* PUT of a detail URL: put_detail (lines 557-575), which never touches the
\* cache.
PutDetail ==
    /\ construction = "ready"
    /\ \E key \in Keys, data \in Payloads :
           LET req == [Request("PUT", <<"alice">>, PyTrue) EXCEPT
                          !.obj_id = key, !.data = data]
               handled == put_detail(meta, fields, store, req)
           IN  ServeDetail("put_detail", req, handled, cache,
                           IF handled.response = Resp("HttpAccepted") THEN "updated"
                           ELSE IF handled.response = Resp("HttpCreated") THEN "created"
                           ELSE "none")

\* DELETE of a detail URL: delete_detail (lines 607-615), which never
\* touches the cache.
DeleteDetail ==
    /\ construction = "ready"
    /\ \E key \in Keys :
           LET req == [Request("DELETE", <<"alice">>, PyTrue) EXCEPT !.obj_id = key]
               handled == delete_detail(meta, store, req)
           IN  ServeDetail("delete_detail", req, handled, cache,
                           IF handled.response = Resp("HttpAccepted") THEN "deleted"
                           ELSE "none")

\* A direct call of a hydration operation has ended: its record.
Hydrated(op, order, input, original, result) ==
    /\ hydrated' = [called |-> TRUE, op |-> op, order |-> order, input |-> input,
                    original |-> original, result |-> result]
    /\ UNCHANGED <<resourceVars, bf, throttle, last, cacheVars, written, instances, race>>

\* A call of full_hydrate (lines 359-386) on a constructed resource.
FullHydrate ==
    /\ construction = "ready"
    /\ ~hydrated.called
    /\ \E order \in Orders(DOMAIN fields), bundle \in HydrateBundles :
           Hydrated("full_hydrate", order, bundle, NewObject,
                    Returned(full_hydrate_passes(meta, fields, order, bundle)))
    /\ UNCHANGED store

\* A call of hydrate_m2m (lines 391-418) on a constructed resource.
HydrateM2M ==
    /\ construction = "ready"
    /\ ~hydrated.called
    /\ \E order \in Orders(DOMAIN fields), bundle \in HydrateBundles :
           Hydrated("hydrate_m2m", order, bundle, NewObject,
                    hydrate_m2m_passes(meta, fields, order, bundle))
    /\ UNCHANGED store

\* full_dehydrate of an object, then full_hydrate of the representation
\* into a bundle that has no object yet.
RoundTrip ==
    /\ construction = "ready"
    /\ ~hydrated.called
    /\ \E obj \in RoundTripObjects, key \in Keys :
           Hydrated("round_trip", items_order(DOMAIN fields),
                    Bundle(FALSE, EmptyDict, full_dehydrate(meta, fields, key, obj).data), obj,
                    Returned(full_hydrate(meta, fields,
                        Bundle(FALSE, EmptyDict, full_dehydrate(meta, fields, key, obj).data))))
    /\ UNCHANGED store

\* A call of ModelResource.obj_create (lines 814-826).
ObjCreate ==
    /\ construction = "ready"
    /\ ~hydrated.called
    /\ \E data \in HydrateData, has_pk \in BOOLEAN, pk \in Keys :
           /\ store' = obj_create(meta, fields, store, data, has_pk, pk).store
           /\ Hydrated("obj_create", items_order(DOMAIN fields),
                       Bundle(TRUE, NewObject, data), NewObject,
                       Returned(hydrate_and_save(meta, fields, store,
                                    create_key(store, has_pk, pk),
                                    Bundle(TRUE, NewObject, data)).bundle))

\* A call of ModelResource.obj_update (lines 828-841) that finds its row.
ObjUpdate ==
    /\ construction = "ready"
    /\ ~hydrated.called
    /\ \E data \in HydrateData, pk \in Keys :
           /\ obj_update(meta, fields, store, data, pk).error = "none"
           /\ store' = obj_update(meta, fields, store, data, pk).store
           /\ Hydrated("obj_update", items_order(DOMAIN fields),
                       Bundle(TRUE, store[pk].obj, data), store[pk].obj,
                       Returned(hydrate_and_save(meta, fields, store, pk,
                                    Bundle(TRUE, store[pk].obj, data)).bundle))

\* A step of an instance has changed the heap and the instance itself.
InstanceStep(i, heap, pc, table) ==
    /\ instances' = [instances EXCEPT !.heap = heap,
                                      !.inst[i].pc = pc,
                                      !.inst[i].fields = table]
    /\ UNCHANGED <<resourceVars, bf, backendVars, cacheVars, written, hydrated, race>>

\* Lines 104-109 of __init__: the instance takes its copy of base_fields.
CopyBaseFields ==
    \E i \in InstanceIds :
        /\ instances.inst[i].pc = "new"
        /\ InstanceStep(i, deepcopy(instances.heap, instances.base_fields).heap, "copied",
                        deepcopy(instances.heap, instances.base_fields).table)

\* Lines 111-114 of __init__: the instance adds resource_uri to its fields.
AddResourceUri ==
    \E i \in InstanceIds :
        /\ instances.inst[i].pc = "copied"
        /\ InstanceStep(i, add_resource_uri(instances.heap, instances.inst[i].fields).heap,
                        "ready", add_resource_uri(instances.heap, instances.inst[i].fields).table)

\* Line 341 of full_dehydrate, in some request the instance serves: a
\* RelatedField of self.fields gets the api_name of the instance.
StampApiName ==
    \E i \in InstanceIds :
        /\ instances.inst[i].pc = "ready"
        /\ \E n \in DOMAIN instances.inst[i].fields :
               /\ is_related(instances.heap[instances.inst[i].fields[n]].field)
               /\ InstanceStep(i, [instances.heap EXCEPT
                                      ![instances.inst[i].fields[n]].api_name =
                                          instances.inst[i].api_name],
                               "ready", instances.inst[i].fields)

\* Line 342 of full_dehydrate, in a request that is past line 341 for the
\* field: the field gets the resource_name of the instance.
StampResourceName ==
    \E i \in InstanceIds :
        /\ instances.inst[i].pc = "ready"
        /\ \E n \in DOMAIN instances.inst[i].fields :
               /\ is_related(instances.heap[instances.inst[i].fields[n]].field)
               /\ instances.heap[instances.inst[i].fields[n]].api_name # PyNone
               /\ InstanceStep(i, [instances.heap EXCEPT
                                      ![instances.inst[i].fields[n]].resource_name =
                                          PyStr(meta.resource_name)],
                               "ready", instances.inst[i].fields)

\* The cache key of the lookup the requests run.
RaceKey == generate_cache_key(meta, <<race.kind>>, race.kwargs)

\* A request has moved by one line of the cached lookup.
ProcessStep(p, process) ==
    /\ race' = [race EXCEPT !.processes[p] = process]
    /\ UNCHANGED <<resourceVars, bf, backendVars, lookup, dehydrated, written, hydrated,
                   instances>>

\* A request asks the cache (lines 454, 471).
RaceCacheGet ==
    /\ construction = "ready"
    /\ \E p \in Processes :
           /\ race.processes[p].pc = "cache.get"
           /\ ProcessStep(p, process_cache_get(meta, cache, RaceKey, race.processes[p]))
    /\ UNCHANGED cache

\* A request that missed asks the backend (lines 457, 474).
RaceBackend ==
    /\ \E p \in Processes :
           /\ race.processes[p].pc = "backend"
           /\ ProcessStep(p, process_backend(race.kind,
                                 backend_call(meta, fields, available_filters, store,
                                              race.kind, race.kwargs),
                                 race.processes[p]))
    /\ UNCHANGED cache

\* A request hands what the backend answered to the cache (lines 458, 475).
RaceCacheSet ==
    \E p \in Processes :
        /\ race.processes[p].pc = "cache.set"
        /\ cache' = cache_set(meta, cache, RaceKey, race.processes[p].bundle)
        /\ ProcessStep(p, process_cache_set(race.processes[p]))

\* A request returns (lines 460, 477).
RaceReturn ==
    /\ \E p \in Processes :
           /\ race.processes[p].pc = "return"
           /\ ProcessStep(p, process_return(race.processes[p]))
    /\ UNCHANGED cache

\* The endpoint has run: its effects on the store and the throttle, and the
\* record of the request.
Serve(endpoint, req, out) ==
    /\ store' = out.store
    /\ throttle' = out.throttle
    /\ last' = Served(endpoint, req, out)
    /\ UNCHANGED <<resourceVars, bf, cacheVars, otherVars>>

\* A request to the list URL: dispatch_list (lines 149-150).  Requests are
\* served one after the other.
DispatchList ==
    /\ construction = "ready"
    /\ last = NoRequest
    /\ \E method \in RequestMethods, caller \in Callers, auth_result \in AuthResults :
       \E query \in IF method = "GET" THEN Queries ELSE {<<>>},
          data \in IF method = "POST" THEN Payloads ELSE {EmptyDict},
          collection \in IF method = "PUT" THEN Collections ELSE {NoCollection},
          bad_request \in IF method = "GET" THEN BOOLEAN ELSE {FALSE} :
           LET req == [Request(method, caller, auth_result) EXCEPT
                          !.query = query, !.data = data, !.collection = collection,
                          !.bad_request = bad_request]
           IN  /\ method = "POST" => \E k \in Keys : ~store[k].exists
               /\ Serve("dispatch_list", req,
                        dispatch(meta, fields, available_filters, store, throttle, "list", req))

\* A request to a detail URL: dispatch_detail (lines 152-153).
DispatchDetail ==
    /\ construction = "ready"
    /\ last = NoRequest
    /\ \E method \in RequestMethods, caller \in Callers, auth_result \in AuthResults,
          obj_id \in Keys :
       \E data \in IF method = "PUT" THEN Payloads ELSE {EmptyDict},
          bad_request \in IF method = "GET" THEN BOOLEAN ELSE {FALSE} :
           LET req == [Request(method, caller, auth_result) EXCEPT
                          !.obj_id = obj_id, !.data = data, !.bad_request = bad_request]
           IN  Serve("dispatch_detail", req,
                     dispatch(meta, fields, available_filters, store, throttle, "detail", req))

\* A request to the schema URL.
GetSchema ==
    /\ construction = "ready"
    /\ last = NoRequest
    /\ \E method \in RequestMethods, caller \in Callers, auth_result \in AuthResults :
       \E bad_request \in IF method = "GET" THEN BOOLEAN ELSE {FALSE} :
           LET req == [Request(method, caller, auth_result) EXCEPT !.bad_request = bad_request]
           IN  Serve("get_schema", req, get_schema(meta, fields, store, throttle, req))

\* A request to the set URL.
GetMultiple ==
    /\ construction = "ready"
    /\ last = NoRequest
    /\ \E method \in RequestMethods, caller \in Callers, auth_result \in AuthResults,
          id_list \in IdLists :
       \E bad_request \in IF method = "GET" THEN BOOLEAN ELSE {FALSE} :
           LET req == [Request(method, caller, auth_result) EXCEPT
                          !.id_list = id_list, !.bad_request = bad_request]
           IN  Serve("get_multiple", req, get_multiple(meta, fields, store, throttle, req))

\* The response of the last request has gone out.
Respond ==
    /\ last # NoRequest
    /\ last' = NoRequest
    /\ UNCHANGED <<resourceVars, bf, store, throttle, cacheVars, otherVars>>

InitFilter ==
    /\ meta \in FilterMetas
    /\ fields = <<>>
    /\ available_filters = {}
    /\ construction = "pending"
    /\ bf = NoCall
    /\ store = [k \in Keys |-> Absent]
    /\ throttle = [c \in Callers |-> 0]
    /\ last = NoRequest
    /\ cache = EmptyDict
    /\ lookup = NoLookup
    /\ dehydrated = NoDehydrate
    /\ written = NoWrites
    /\ hydrated = NoHydrate
    /\ instances = NoInstances
    /\ race = NoRace

InitDehydrate ==
    /\ meta \in DehydrateMetas
    /\ fields = <<>>
    /\ available_filters = {}
    /\ construction = "pending"
    /\ bf = NoCall
    /\ store = [k \in Keys |-> Absent]
    /\ throttle = [c \in Callers |-> 0]
    /\ last = NoRequest
    /\ cache = EmptyDict
    /\ lookup = NoLookup
    /\ dehydrated = NoDehydrate
    /\ written = NoWrites
    /\ hydrated = NoHydrate
    /\ instances = NoInstances
    /\ race = NoRace

InitCache ==
    /\ meta \in CacheMetas
    /\ fields = <<>>
    /\ available_filters = {}
    /\ construction = "pending"
    /\ bf = NoCall
    /\ store \in InitStores
    /\ throttle = [c \in Callers |-> 0]
    /\ last = NoRequest
    /\ cache = EmptyDict
    /\ lookup = NoLookup
    /\ dehydrated = NoDehydrate
    /\ written = NoWrites
    /\ hydrated = NoHydrate
    /\ instances = NoInstances
    /\ race = NoRace

InitHydrate ==
    /\ meta \in HydrateMetas
    /\ fields = <<>>
    /\ available_filters = {}
    /\ construction = "pending"
    /\ bf = NoCall
    /\ store = HydrateStore
    /\ throttle = [c \in Callers |-> 0]
    /\ last = NoRequest
    /\ cache = EmptyDict
    /\ lookup = NoLookup
    /\ dehydrated = NoDehydrate
    /\ written = NoWrites
    /\ hydrated = NoHydrate
    /\ instances = NoInstances
    /\ race = NoRace

InitInstances ==
    /\ meta \in HydrateMetas
    /\ fields = <<>>
    /\ available_filters = {}
    /\ construction = "pending"
    /\ bf = NoCall
    /\ store = HydrateStore
    /\ throttle = [c \in Callers |-> 0]
    /\ last = NoRequest
    /\ cache = EmptyDict
    /\ lookup = NoLookup
    /\ dehydrated = NoDehydrate
    /\ written = NoWrites
    /\ hydrated = NoHydrate
    /\ instances = ClassInstances
    /\ race = NoRace

InitRace ==
    /\ meta \in DetailMetas
    /\ fields = <<>>
    /\ available_filters = {}
    /\ construction = "pending"
    /\ bf = NoCall
    /\ store \in InitStores
    /\ throttle = [c \in Callers |-> 0]
    /\ last = NoRequest
    /\ cache = EmptyDict
    /\ lookup = NoLookup
    /\ dehydrated = NoDehydrate
    /\ written = NoWrites
    /\ hydrated = NoHydrate
    /\ instances = NoInstances
    /\ \E l \in RaceLookups :
           race = [kind |-> l.kind, kwargs |-> l.kwargs,
                   processes |-> [p \in Processes |-> NewProcess]]

InitDetail ==
    /\ meta \in DetailMetas
    /\ fields = <<>>
    /\ available_filters = {}
    /\ construction = "pending"
    /\ bf = NoCall
    /\ store \in InitStores
    /\ throttle = [c \in Callers |-> 0]
    /\ last = NoRequest
    /\ cache = EmptyDict
    /\ lookup = NoLookup
    /\ dehydrated = NoDehydrate
    /\ written = NoWrites
    /\ hydrated = NoHydrate
    /\ instances = NoInstances
    /\ race = NoRace

Init ==
    /\ meta \in DispatchMetas
    /\ fields = <<>>
    /\ available_filters = {}
    /\ construction = "pending"
    /\ bf = NoCall
    /\ store \in InitStores
    /\ throttle = [c \in Callers |-> 0]
    /\ last = NoRequest
    /\ cache = EmptyDict
    /\ lookup = NoLookup
    /\ dehydrated = NoDehydrate
    /\ written = NoWrites
    /\ hydrated = NoHydrate
    /\ instances = NoInstances
    /\ race = NoRace

NextFilter == Construct \/ CallBuildFilters

NextDehydrate == Construct \/ FullDehydrate

NextCache == Construct \/ CachedObjGet \/ CachedObjGetList \/ ObjDelete

NextHydrate == Construct \/ FullHydrate \/ HydrateM2M \/ RoundTrip \/ ObjCreate \/ ObjUpdate

NextInstances == CopyBaseFields \/ AddResourceUri \/ StampApiName \/ StampResourceName

NextRace == Construct \/ RaceCacheGet \/ RaceBackend \/ RaceCacheSet \/ RaceReturn \/ PutDetail

NextDetail == Construct \/ GetDetail \/ PutDetail \/ DeleteDetail

Next == Construct \/ DispatchList \/ DispatchDetail \/ GetSchema \/ GetMultiple \/ Respond

vars ==
    <<meta, fields, available_filters, construction, bf, store, throttle, last,
      cache, lookup, dehydrated, written, hydrated, instances, race>>

SpecFilter == InitFilter /\ [][NextFilter]_vars

Spec == Init /\ [][Next]_vars

SpecDehydrate == InitDehydrate /\ [][NextDehydrate]_vars

SpecHydrate == InitHydrate /\ [][NextHydrate]_vars

SpecInstances == InitInstances /\ [][NextInstances]_vars

SpecRace == InitRace /\ [][NextRace]_vars

SpecDetail == InitDetail /\ [][NextDetail]_vars

SpecCache == InitCache /\ [][NextCache]_vars

-----------------------------------------------------------------------------
(* Properties of the filter translation engine, checked under SpecFilter *)

Retained(item) == item.expr \in available_filters

DeepLookup(expr) == Len(split(expr, LOOKUP_SEP)) >= 3

Without(seq, i) == SubSeq(seq, 1, i - 1) \o SubSeq(seq, i + 1, Len(seq))

\* C4 (as stated): build_filters always raises InvalidFilterError when its
\* input holds an expression with two lookup segments beyond the field name.
C4_DeepLookupAlwaysRaises ==
    (bf.called /\ \E i \in 1..Len(bf.input) : DeepLookup(bf.input[i].expr))
        => bf.result.error = "InvalidFilterError"

\* C4 (amended): an expression with two lookup segments raises
\* InvalidFilterError exactly when it is in the available-filters set, as soon
\* as the iteration reaches it; one that is not in the set is dropped, and
\* the call goes on as if it had not been supplied.
C4_DeepLookupRaisesOnlyWhenAvailable ==
    bf.called =>
        \A i \in 1..Len(bf.input) :
            DeepLookup(bf.input[i].expr) =>
                IF Retained(bf.input[i])
                THEN /\ bf.result.error # "none"
                     /\ build_filters(fields, available_filters, SubSeq(bf.input, 1, i - 1)).error = "none"
                            => bf.result.error = "InvalidFilterError"
                ELSE bf.result = build_filters(fields, available_filters, Without(bf.input, i))

C4_Witness ==
    /\ bf.called
    /\ bf.result.error = "InvalidFilterError"
    /\ \E i \in 1..Len(bf.input) : DeepLookup(bf.input[i].expr) /\ Retained(bf.input[i])
    /\ \E i \in 1..Len(bf.input) : ~DeepLookup(bf.input[i].expr) /\ Retained(bf.input[i])

\* C5: an expression that is not in the available-filters set never causes an
\* error and never contributes an entry; every key of the output is
\* <attribute>__<kind> for an input expression of the set, and the outcome is
\* the one of the call without the dropped expressions.
C5_UnknownExpressionsDropped ==
    bf.called =>
        LET kept == SelectSeq(bf.input, Retained)
        IN  /\ bf.result = build_filters(fields, available_filters, kept)
            /\ kept = <<>> => bf.result = Returned(EmptyDict)
            /\ bf.result.error = "none" =>
                   \A key \in DOMAIN bf.result.value :
                       \E i \in 1..Len(bf.input), f \in DOMAIN fields, k \in QUERY_TERMS :
                           /\ Retained(bf.input[i])
                           /\ key = fields[f].attribute \o <<"__", k>>
                           /\ \/ bf.input[i].expr = f /\ k = "exact"
                              \/ bf.input[i].expr = f \o <<"__", k>>

C5_Witness ==
    /\ bf.called
    /\ bf.result.error = "none"
    /\ DOMAIN bf.result.value # {}
    /\ \E i \in 1..Len(bf.input) : ~Retained(bf.input[i])

\* C6: the available-filters set of a constructed resource is exactly, for
\* each whitelist entry (field, kinds), field__k for every k in kinds plus the
\* bare field name iff 'exact' is among them, and for an entry 'all' field__k
\* for every recognised kind plus the bare name.
C6_AvailableFiltersExact ==
    construction = "ready" =>
        /\ \A e \in available_filters :
               \E f \in DOMAIN meta.filtering :
                   LET kinds == IF meta.filtering[f].tag = "all" THEN QUERY_TERMS
                                ELSE meta.filtering[f].kinds
                   IN  \/ e = f /\ "exact" \in kinds
                       \/ \E k \in kinds : e = f \o <<"__", k>>
        /\ \A f \in DOMAIN meta.filtering :
               LET kinds == IF meta.filtering[f].tag = "all" THEN QUERY_TERMS
                            ELSE meta.filtering[f].kinds
               IN  /\ \A k \in kinds : f \o <<"__", k>> \in available_filters
                   /\ "exact" \in kinds => f \in available_filters
        /\ (DOMAIN meta.filtering = {<<"title">>}
            /\ meta.filtering[<<"title">>] = EntryList({"exact", "startswith"}))
               => available_filters = {<<"title">>, <<"title", "__", "exact">>,
                                       <<"title", "__", "startswith">>}

C6_Witness ==
    /\ construction = "ready"
    /\ DOMAIN meta.filtering = {<<"title">>}
    /\ meta.filtering[<<"title">>] = EntryList({"startswith"})
    /\ available_filters = {<<"title", "__", "startswith">>}

\* The three ways a whitelist declaration is invalid.
InvalidDeclaration ==
    \E f \in DOMAIN meta.filtering :
        \/ f \notin DOMAIN meta.base_fields \cup {<<"resource_uri">>}
        \/ meta.filtering[f].tag \notin {"all", "list"}
        \/ meta.filtering[f].tag = "list" /\ ~(meta.filtering[f].kinds \subseteq QUERY_TERMS)

\* C7: construction fails with InvalidFilterError, and leaves no resource,
\* whenever the whitelist names a field absent from the schema, lists an
\* unrecognised kind or gives an entry that is neither 'all' nor a list; no
\* request is ever served with such a declaration.
C7_InvalidDeclarationFailsConstruction ==
    /\ construction # "pending" =>
           (construction = "InvalidFilterError" <=> InvalidDeclaration)
    /\ construction \in {"pending", "ready", "InvalidFilterError"}
    /\ construction # "ready" => fields = <<>> /\ available_filters = {} /\ ~bf.called
    /\ bf.called => ~InvalidDeclaration

C7_Witness ==
    /\ construction = "InvalidFilterError"
    /\ \E f \in DOMAIN meta.filtering :
           meta.filtering[f].tag = "list" /\ "bogus" \in meta.filtering[f].kinds

\* The value the specification gives for a filter value.
ExpectedValue(v) ==
    CASE v = PyStr("true") -> PyTrue
      [] v = PyStr("false") -> PyFalse
      [] v \in {PyStr("nil"), PyStr("none"), PyStr("None")} -> PyNone
      [] OTHER -> v

\* The output key of a retained expression: the attribute of its field and
\* its suffix, 'exact' when it has none.
ExpectedKey(expr) ==
    IF expr \in DOMAIN fields
    THEN fields[expr].attribute \o <<"__", "exact">>
    ELSE fields[SubSeq(expr, 1, Len(expr) - 2)].attribute \o <<"__", expr[Len(expr)]>>

\* C8: when build_filters returns, each retained expression has written,
\* under its key, true for 'true', false for 'false', null for 'nil', 'none'
\* and 'None' and the value itself for any other string; the entry stays
\* unless a later expression writes the same key.
C8_ValuesCoerced ==
    (bf.called /\ bf.result.error = "none") =>
        \A i \in 1..Len(bf.input) :
            Retained(bf.input[i]) =>
                LET key == ExpectedKey(bf.input[i].expr)
                    after == build_filters(fields, available_filters, SubSeq(bf.input, 1, i)).value
                IN  /\ key \in DOMAIN after
                    /\ after[key] = ExpectedValue(bf.input[i].value)
                    /\ key \in DOMAIN bf.result.value
                    /\ (\A j \in (i + 1)..Len(bf.input) :
                            Retained(bf.input[j]) => ExpectedKey(bf.input[j].expr) # key)
                           => bf.result.value[key] = ExpectedValue(bf.input[i].value)

C8_Witness ==
    /\ bf.called
    /\ bf.result.error = "none"
    /\ \E i \in 1..Len(bf.input) :
           bf.input[i] = [expr |-> <<"title">>, value |-> PyStr("None")]
    /\ <<"headline", "__", "exact">> \in DOMAIN bf.result.value
    /\ bf.result.value[<<"headline", "__", "exact">>] = PyNone

-----------------------------------------------------------------------------
(* Properties of the request cycle, checked under Spec *)

\* A step that serves a request through dispatch.
DispatchServed ==
    last = NoRequest /\ last'.endpoint \in {"dispatch_list", "dispatch_detail"}

ScopeOf(endpoint) == IF endpoint = "dispatch_list" THEN "list" ELSE "detail"

AllowedMethods(endpoint) ==
    IF endpoint = "dispatch_list" THEN meta.list_allowed_methods
    ELSE meta.detail_allowed_methods

CountCalls(calls, fn) == Cardinality({i \in 1..Len(calls) : calls[i].fn = fn})

\* The method-allowed, handler-resolved, authentication and throttle gates
\* let the request through, the throttle being the one the request meets.
GatesPassed(endpoint, req) ==
    /\ lower(req.method) \in AllowedMethods(endpoint)
    /\ <<lower(req.method), ScopeOf(endpoint)>> \in HandlerNames
    /\ req.auth_result = PyTrue
    /\ throttle[req.caller] < ThrottleAt

\* C1: a request to dispatch whose verb is not in the allowed methods of its
\* scope is answered 405 whatever authentication would answer and whatever
\* the throttle holds, and neither authentication, the throttle, a handler
\* nor the access recording is called for it.
C1_DisallowedVerbIs405 ==
    [][(DispatchServed /\ lower(last'.request.method) \notin AllowedMethods(last'.endpoint)) =>
           /\ last'.response = Resp("HttpMethodNotAllowed")
           /\ last'.calls = <<>>
           /\ throttle' = throttle
           /\ store' = store]_vars

C1_Witness ==
    /\ last.endpoint \in {"dispatch_list", "dispatch_detail"}
    /\ lower(last.request.method) \notin AllowedMethods(last.endpoint)
    /\ last.request.auth_result = PyFalse
    /\ throttle[last.request.caller] >= ThrottleAt
    /\ last.response = Resp("HttpMethodNotAllowed")
    /\ last.calls = <<>>

\* C2 as stated: once the four gates of dispatch are passed the access is
\* recorded exactly once, whatever the handler does, a raised failure
\* included.
C2_AccessAlwaysRecorded ==
    [][(DispatchServed /\ GatesPassed(last'.endpoint, last'.request)) =>
           /\ throttle' = accessed(throttle, last'.request.caller)
           /\ CountCalls(last'.calls, "accessed") = 1]_vars

HandlerRaises(endpoint, req) ==
    run_handler(meta, fields, available_filters, store, lower(req.method),
                ScopeOf(endpoint), req).response.t = "exception"

\* C2: once the four gates of dispatch are passed, the access is recorded
\* exactly once, after the handler, whenever the handler returns (a data
\* response, an error response or a value that is no response); when the
\* handler raises, the failure leaves dispatch and no access is recorded.
C2_AccessRecordedUnlessHandlerRaises ==
    [][(DispatchServed /\ GatesPassed(last'.endpoint, last'.request)) =>
           IF HandlerRaises(last'.endpoint, last'.request)
           THEN /\ last'.response.t = "exception"
                /\ throttle' = throttle
                /\ CountCalls(last'.calls, "accessed") = 0
           ELSE /\ last'.response.t = "HttpResponse"
                /\ throttle' = accessed(throttle, last'.request.caller)
                /\ CountCalls(last'.calls, "accessed") = 1
                /\ last'.calls[Len(last'.calls)] = Call("accessed", last'.request.caller)]_vars

C2_Witness ==
    /\ last.endpoint = "dispatch_list"
    /\ last.request.method = "GET"
    /\ last.request.auth_result = PyTrue
    /\ last.response = Exc("NotImplementedError")
    /\ CountCalls(last.calls, "should_be_throttled") = 1
    /\ CountCalls(last.calls, "get_list") = 1
    /\ CountCalls(last.calls, "accessed") = 0
    /\ throttle[last.request.caller] = 1

\* C3: a GET of the list returns exactly the stored objects that match the
\* lookup terms build_filters makes of the query parameters.
C3_QueryParametersFilterList ==
    (/\ last.endpoint = "dispatch_list"
     /\ last.request.method = "GET"
     /\ last.response = Resp("HttpResponse")) =>
        LET terms == build_filters(fields, available_filters, last.request.query)
        IN  /\ terms.error = "none"
            /\ last.matched = queryset_filter(store, terms.value)

Resolves(key) == key \in Keys /\ store[key].exists

Missing(key) == ~Resolves(key)

ExpectedObjects(ids) ==
    LET found == SelectSeq(ids, Resolves)
    IN  [i \in 1..Len(found) |-> full_dehydrate(meta, fields, found[i], store[found[i]].obj)]

\* C9: a bulk GET that is past its gates answers with a data response whose
\* 'objects' holds one bundle per key that is stored and whose 'not_found'
\* holds every key that is not, both in request order, 'not_found' being
\* present only when it is not empty.
C9_BulkGetPartitionsKeys ==
    [][(/\ last = NoRequest
        /\ last'.endpoint = "get_multiple"
        /\ last'.request.method = "GET"
        /\ last'.request.auth_result = PyTrue
        /\ throttle[last'.request.caller] < ThrottleAt
        /\ ~last'.request.bad_request
        /\ meta.implemented) =>
           LET ids == split(last'.request.id_list, ";")
           IN  /\ last'.response = Resp("HttpResponse")
               /\ last'.objects = ExpectedObjects(ids)
               /\ last'.not_found = SelectSeq(ids, Missing)
               /\ last'.has_not_found <=> (\E i \in 1..Len(ids) : Missing(ids[i]))]_vars

\* obj_update finds exactly one row to update.
UpdateSucceeds(key) == store[key].exists /\ key \notin meta.duplicated

StoredObjects(st) ==
    LET present == SelectSeq(<< <<"1">>, <<"2">> >>, LAMBDA k : st[k].exists)
    IN  [i \in 1..Len(present) |-> st[present[i]].obj]

\* The object a ModelResource builds from one item of a payload.
ObjectOf(data) == [a \in {<<"headline">>} |-> data[<<"title">>]]

C12_SchemaGetOnlyAndGated ==
    [][(last = NoRequest /\ last'.endpoint = "get_schema") =>
           LET req == last'.request
               authed == <<Call("is_authenticated", req.caller)>>
               checked == authed \o <<Call("should_be_throttled", req.caller)>>
           IN  /\ store' = store
               /\ IF req.method # "GET"
                  THEN /\ last'.response = Resp("HttpMethodNotAllowed")
                       /\ last'.calls = <<>>
                       /\ throttle' = throttle
                  ELSE IF req.auth_result.t = "HttpResponse"
                  THEN /\ last'.response = req.auth_result
                       /\ last'.calls = authed
                       /\ throttle' = throttle
                  ELSE IF req.auth_result # PyTrue
                  THEN /\ last'.response = Resp("HttpUnauthorized")
                       /\ last'.calls = authed
                       /\ throttle' = throttle
                  ELSE IF throttle[req.caller] >= ThrottleAt
                  THEN /\ last'.response = Resp("HttpForbidden")
                       /\ last'.calls = checked
                       /\ throttle' = throttle
                  ELSE /\ last'.response \in {Resp("HttpResponse"), Resp("HttpBadRequest")}
                       /\ last'.calls = checked \o <<Call("accessed", req.caller)>>
                       /\ throttle' = accessed(throttle, req.caller)]_vars

C12_Witness ==
    /\ last.endpoint = "get_schema"
    /\ last.request.method = "POST"
    /\ last.request.auth_result = PyTrue
    /\ throttle[last.request.caller] < ThrottleAt
    /\ last.response = Resp("HttpMethodNotAllowed")
    /\ last.calls = <<>>

\* The authentication answered neither True nor with a response of its own.
AuthFails(req) == req.auth_result.t # "HttpResponse" /\ req.auth_result # PyTrue

\* The request gets as far as the authentication of its endpoint.
ReachesAuth(endpoint, req) ==
    IF endpoint \in {"dispatch_list", "dispatch_detail"}
    THEN /\ lower(req.method) \in AllowedMethods(endpoint)
         /\ <<lower(req.method), ScopeOf(endpoint)>> \in HandlerNames
    ELSE req.method = "GET"

\* C13: on every endpoint a request that reaches the authentication and
\* fails it is answered 401, and an authenticated request of a caller over
\* the throttle limit is answered 403.
C13_AuthFailureIs401ThrottleIs403 ==
    [][(/\ last = NoRequest
        /\ last'.endpoint # "none"
        /\ ReachesAuth(last'.endpoint, last'.request)) =>
           /\ AuthFails(last'.request) => last'.response = Resp("HttpUnauthorized")
           /\ (last'.request.auth_result = PyTrue /\ throttle[last'.request.caller] >= ThrottleAt)
                  => last'.response = Resp("HttpForbidden")]_vars

\* The collaborator calls of dispatch that belong to no gate.
AfterGates(calls) ==
    SelectSeq(calls, LAMBDA c : c.fn \notin {"is_authenticated", "should_be_throttled"})

\* C14: dispatch passes its gates in the order method allowed, handler
\* resolved, authenticated, throttle checked, executed.  A verb with no
\* handler gives 501 before authentication; a response of the authentication
\* is returned as it is and any other result that is not True gives 401,
\* both before the throttle is asked; a caller over the limit gives 403.  A
\* request that a gate ends calls no handler, records no access and changes
\* nothing; the handler is called after both gates were asked.
C14_GatesOrderedAndShortCircuit ==
    [][DispatchServed =>
           LET req == last'.request
               authed == <<Call("is_authenticated", req.caller)>>
               checked == authed \o <<Call("should_be_throttled", req.caller)>>
               handler == Call(lower(req.method) \o "_" \o ScopeOf(last'.endpoint), <<>>)
           IN  IF ~GatesPassed(last'.endpoint, req)
               THEN /\ store' = store
                    /\ throttle' = throttle
                    /\ AfterGates(last'.calls) = <<>>
                    /\ IF lower(req.method) \notin AllowedMethods(last'.endpoint)
                       THEN last'.response = Resp("HttpMethodNotAllowed") /\ last'.calls = <<>>
                       ELSE IF <<lower(req.method), ScopeOf(last'.endpoint)>> \notin HandlerNames
                       THEN last'.response = Resp("HttpNotImplemented") /\ last'.calls = <<>>
                       ELSE IF req.auth_result.t = "HttpResponse"
                       THEN last'.response = req.auth_result /\ last'.calls = authed
                       ELSE IF req.auth_result # PyTrue
                       THEN last'.response = Resp("HttpUnauthorized") /\ last'.calls = authed
                       ELSE last'.response = Resp("HttpForbidden") /\ last'.calls = checked
               ELSE /\ Len(last'.calls) >= 3
                    /\ SubSeq(last'.calls, 1, 3) = checked \o <<handler>>
                    /\ CountCalls(last'.calls, handler.fn) = 1]_vars

C14_Witness ==
    /\ last.endpoint = "dispatch_list"
    /\ last.request.method = "HEAD"
    /\ "head" \in meta.list_allowed_methods
    /\ last.request.auth_result = PyFalse
    /\ throttle[last.request.caller] >= ThrottleAt
    /\ last.response = Resp("HttpNotImplemented")
    /\ last.calls = <<>>

\* C15 as stated: dispatch always ends in an HTTP response.
C15_DispatchAlwaysResponds ==
    last.endpoint \in {"dispatch_list", "dispatch_detail"} => last.response.t = "HttpResponse"

\* C15: dispatch ends in an HTTP response whenever a gate ends the request
\* or the handler returns: a response of the handler is returned unchanged,
\* any other value of the handler gives 202.  A failure raised inside the
\* handler leaves dispatch as that failure.
C15_ResponseNormalizedWhenHandlerReturns ==
    [][DispatchServed =>
           IF ~GatesPassed(last'.endpoint, last'.request)
           THEN last'.response.t = "HttpResponse"
           ELSE LET returned == run_handler(meta, fields, available_filters, store,
                                    lower(last'.request.method), ScopeOf(last'.endpoint),
                                    last'.request).response
                IN  /\ returned.t \in {"HttpResponse", "exception"} => last'.response = returned
                    /\ returned.t \notin {"HttpResponse", "exception"} =>
                           last'.response = Resp("HttpAccepted")]_vars

C15_Witness ==
    /\ last.endpoint = "dispatch_detail"
    /\ last.request.method = "POST"
    /\ meta.post_detail_overridden
    /\ CountCalls(last.calls, "post_detail") = 1
    /\ CountCalls(last.calls, "accessed") = 1
    /\ last.response = Resp("HttpAccepted")

C17_LookupFailuresNeverEscape ==
    (/\ meta.implemented
     /\ \E i \in 1..Len(last.calls) : last.calls[i].fn \in {"obj_get", "obj_update", "obj_delete"})
        => last.response.t = "HttpResponse"

-----------------------------------------------------------------------------
(* Properties of full_dehydrate, checked under SpecDehydrate *)

\* The default value of a field: the attribute of the object, null when the
\* field has no attribute or the object lacks it.
DefaultValue(f) ==
    IF fields[f].attribute \in DOMAIN dehydrated.obj
    THEN dehydrated.obj[fields[f].attribute]
    ELSE PyNone

\* The fields a dehydrate_<name> method exists for, in the order of the run.
Hooked == SelectSeq(dehydrated.order, LAMBDA f : has_dehydrate_method(meta, f))

\* The field's hook ran earlier in the run than the hook of f.
HookRanBefore(g, f) ==
    \E i, j \in 1..Len(Hooked) : i < j /\ Hooked[i] = g /\ Hooked[j] = f

\* The passes run in order: every default, then every hook, then dehydrate
\* once; the hook of the resource sees the data as it is returned, and the
\* data has exactly one entry per field.
PassesInOrder ==
    /\ dehydrated.bundle.events =
           [i \in 1..Len(dehydrated.order) |-> Event("field", dehydrated.order[i])]
           \o [i \in 1..Len(Hooked) |-> Event("hook", Hooked[i])]
           \o <<Event("dehydrate", <<>>)>>
    /\ dehydrated.bundle.seen = dehydrated.bundle.data
    /\ DOMAIN dehydrated.bundle.data = DOMAIN fields
    /\ \A f \in DOMAIN fields :
           ~has_dehydrate_method(meta, f) => dehydrated.bundle.data[f] = DefaultValue(f)

\* C20 as stated: the passes run in order and each per-field hook sees the
\* default-computed value of every field.
C20_HooksSeeDefaultsOfAllFields ==
    dehydrated.called =>
        /\ PassesInOrder
        /\ \A f \in meta.dehydrate_hooks \cap DOMAIN fields :
               dehydrated.bundle.data[f].v = [g \in DOMAIN fields |-> DefaultValue(g)]

\* C20: every default is extracted before any per-field hook runs, so each
\* hook sees a value for every field: the default of its own field and of
\* every field whose hook has not run yet, and the override of every field
\* whose hook ran before it; the hook of the resource runs exactly once,
\* after all per-field hooks, and sees every override applied; the result
\* has exactly one entry per field.
C20_HooksSeeDefaultsAndEarlierOverrides ==
    dehydrated.called =>
        /\ PassesInOrder
        /\ \A f \in meta.dehydrate_hooks \cap DOMAIN fields :
               LET saw == dehydrated.bundle.data[f].v
               IN  /\ DOMAIN saw = DOMAIN fields
                   /\ saw[f] = DefaultValue(f)
                   /\ \A g \in DOMAIN fields :
                          saw[g] = IF HookRanBefore(g, f) THEN dehydrated.bundle.data[g]
                                   ELSE DefaultValue(g)

C20_Witness ==
    /\ dehydrated.called
    /\ meta.implemented
    /\ meta.dehydrate_hooks = {<<"title">>, <<"year">>}
    /\ dehydrated.order = << <<"title">>, <<"resource_uri">>, <<"year">> >>
    /\ dehydrated.bundle.data[<<"title">>].v[<<"resource_uri">>] = PyNone
    /\ dehydrated.bundle.data[<<"year">>].v[<<"resource_uri">>] = PyStr("note/1/")
    /\ dehydrated.bundle.data[<<"year">>].v[<<"title">>] = dehydrated.bundle.data[<<"title">>]
    /\ dehydrated.bundle.data[<<"year">>].v[<<"year">>] = PyStr("2010")

-----------------------------------------------------------------------------
(* Properties of the cached lookups, checked under SpecCache *)

\* Two enumerations of one mapping of keyword arguments.
SameMapping(a, b) == {a[i] : i \in DOMAIN a} = {b[i] : i \in DOMAIN b}

OtherKind(kind) == IF kind = "list" THEN "detail" ELSE "list"

\* C18: the cache key of a lookup is the same for every order its keyword
\* arguments are enumerated in, and differs from the key of the same
\* arguments under the other kind tag.
C18_CacheKeyIndependentOfOrder ==
    lookup.called =>
        /\ \A kwargs \in KwargsChoices :
               SameMapping(kwargs, lookup.kwargs) =>
                   generate_cache_key(meta, <<lookup.kind>>, kwargs) = lookup.key
        /\ generate_cache_key(meta, <<OtherKind(lookup.kind)>>, lookup.kwargs) # lookup.key

\* The row a detail lookup is for.
LookupPk(kwargs) ==
    IF \E i \in DOMAIN kwargs : kwargs[i].expr = <<"obj_id">>
    THEN <<(CHOOSE item \in {kwargs[i] : i \in DOMAIN kwargs} : item.expr = <<"obj_id">>).value.v>>
    ELSE <<>>

\* C19: a cached lookup asks the cache first, under the derived key.  On a
\* hit it returns the cached value, calls no backend operation and leaves
\* the cache alone; on a miss it calls the backend operation exactly once
\* and, when that returns, stores the result under the key before it
\* returns it; when the backend operation fails the failure is raised and
\* the cache is left unchanged.
C19_CachedLookupChecksCacheFirst ==
    [][(lookup'.called /\ (lookup' # lookup \/ cache' # cache)) =>
           LET cache_key == lookup'.key
               hit == meta.cache = "SimpleCache" /\ cache_key \in DOMAIN cache
               asked == Call("cache.get", <<cache_key>>)
               backend == Call(IF lookup'.kind = "list" THEN "obj_get_list" ELSE "obj_get", <<>>)
           IN  /\ cache_key = generate_cache_key(meta, <<lookup'.kind>>, lookup'.kwargs)
               /\ IF hit
                  THEN /\ lookup'.result = Returned(cache[cache_key])
                       /\ lookup'.calls = <<asked>>
                       /\ cache' = cache
                  ELSE IF lookup'.result.error # "none"
                  THEN /\ lookup'.calls = <<asked, backend>>
                       /\ cache' = cache
                  ELSE /\ lookup'.calls = <<asked, backend, Call("cache.set", <<cache_key>>)>>
                       /\ lookup'.kind = "detail" =>
                              lookup'.result.value = PyObject(store[LookupPk(lookup'.kwargs)].obj)
                       /\ IF meta.cache = "SimpleCache"
                          THEN /\ DOMAIN cache' = DOMAIN cache \cup {cache_key}
                               /\ cache'[cache_key] = lookup'.result.value
                               /\ \A k \in DOMAIN cache : cache'[k] = cache[k]
                          ELSE cache' = cache]_vars

C19_Witness ==
    /\ meta.cache = "SimpleCache"
    /\ lookup.called
    /\ lookup.kind = "detail"
    /\ lookup.kwargs = <<[expr |-> <<"obj_id">>, value |-> PyStr("1")]>>
    /\ lookup.key = "None:note:detail:obj_id=1"
    /\ lookup.calls = <<Call("cache.get", <<lookup.key>>)>>
    /\ lookup.result = Returned(PyObject([a \in {<<"headline">>} |-> PyStr("foo")]))
    /\ ~store[<<"1">>].exists

-----------------------------------------------------------------------------
(* The outcomes of build_filters, checked under SpecFilter *)

\* C26: build_filters ends by returning a mapping or by raising
\* InvalidFilterError and in no other way, whatever the names of the
\* whitelisted fields and the expressions supplied.
C26_BuildFiltersReturnsOrRaisesInvalidFilter ==
    bf.called => bf.result.error \in {"none", "InvalidFilterError"}

-----------------------------------------------------------------------------
(* Read access on a resource that does not allow GET, checked under Spec *)

\* C27: on a resource with 'get' in neither list_allowed_methods nor
\* detail_allowed_methods, no request ends in a data response that carries
\* dehydrated objects.
C27_NoObjectDataWhenGetDisallowed ==
    ("get" \notin meta.list_allowed_methods \cup meta.detail_allowed_methods)
        => ~(last.response = Resp("HttpResponse") /\ last.objects # <<>>)

-----------------------------------------------------------------------------
(* Reads after writes on the detail endpoints, checked under SpecDetail *)

\* The key of the last request.
LastKey == last.request.obj_id

\* C28: a get_detail of a key whose last write was a successful
\* delete_detail answers Gone, and a get_detail of a key whose last write
\* was an update by put_detail returns the object as updated, also when the
\* cache keeps the values it is given.
C28_DetailReadsSeeLastWrite ==
    (last.endpoint = "get_detail" /\ ~last.request.bad_request) =>
        /\ written[LastKey] = "deleted" => last.response = Resp("HttpGone")
        /\ written[LastKey] = "updated" =>
               /\ last.response = Resp("HttpResponse")
               /\ last.objects = <<full_dehydrate(meta, fields, LastKey, store[LastKey].obj)>>

-----------------------------------------------------------------------------
(* Properties of the hydration passes, checked under SpecHydrate *)

\* The object the per-field pass starts from: the one of the bundle, or a
\* new one when the bundle has none.
StartObject == IF hydrated.input.has_obj THEN hydrated.input.obj ELSE NewObject

\* The representation holds a value for the field that is not null.
Supplied(f) == f \in DOMAIN hydrated.input.data /\ hydrated.input.data[f] # PyNone

\* The attribute is the same in both objects: missing in both, or set to
\* the same value.
SameAttribute(before, after, a) ==
    /\ a \in DOMAIN before <=> a \in DOMAIN after
    /\ a \in DOMAIN before => after[a] = before[a]

\* The fields a hydrate_<name> method exists for, in the order of the run.
HydrateHooked == SelectSeq(hydrated.order, LAMBDA f : has_hydrate_method(meta, f))

\* C21: the per-field pass of full_hydrate writes an attribute only when it
\* backs a field whose hydrated value is not null and that is no relation
\* to many; a scalar field's attribute gets the value, a to-one relation's
\* attribute the related object and not the wrapper bundle; every other
\* attribute is as before.  The hydrate_<name> hooks run after the whole
\* pass, on the object the pass left, and the hook of the resource last.
C21_FullHydrateWritesOnlyBackedNonNull ==
    hydrated.op = "full_hydrate" =>
        LET after == hydrated.result.value
        IN  /\ \A a \in DOMAIN StartObject \cup DOMAIN after.obj :
                   (~\E f \in DOMAIN fields :
                        /\ fields[f].attribute = a
                        /\ Supplied(f)
                        /\ ~is_m2m(fields[f]))
                       => SameAttribute(StartObject, after.obj, a)
            /\ \A f \in DOMAIN fields :
                   (fields[f].attribute # NoAttribute /\ Supplied(f)) =>
                       /\ ~is_related(fields[f]) =>
                              after.obj[fields[f].attribute] = hydrated.input.data[f]
                       /\ (is_related(fields[f]) /\ ~is_m2m(fields[f])) =>
                              after.obj[fields[f].attribute] =
                                  [t |-> "Related", v |-> hydrated.input.data[f].v]
            /\ after.events =
                   [i \in 1..Len(hydrated.order) |-> Event("field", hydrated.order[i])]
                   \o [i \in 1..Len(HydrateHooked) |-> Event("hook", HydrateHooked[i])]
                   \o <<Event("hydrate", <<>>)>>
            /\ \A f \in DOMAIN fields :
                   has_hydrate_method(meta, f) => after.seen[f] = after.obj

C21_Witness ==
    /\ hydrated.op = "full_hydrate"
    /\ hydrated.input.has_obj
    /\ hydrated.input.obj = StoredObject
    /\ DOMAIN hydrated.input.data = {<<"title">>, <<"author">>, <<"tags">>, <<"labels">>}
    /\ hydrated.input.data[<<"title">>] = PyNone
    /\ hydrated.input.data[<<"author">>] = PyStr("author/1/")
    /\ meta.hydrate_hooks = {<<"title">>, <<"tags">>}
    /\ hydrated.result.value.obj =
           [StoredObject EXCEPT ![<<"writer">>] = [t |-> "Related", v |-> "author/1/"]]

\* The entry of the representation is the same in both: missing in both,
\* or set to the same value.
SameEntry(before, after, n) ==
    /\ n \in DOMAIN before <=> n \in DOMAIN after
    /\ n \in DOMAIN before => after[n] = before[n]

\* The places of the events of one kind in a record of steps.
Places(events, kind) == {i \in 1..Len(events) : events[i].kind = kind}

\* C22: hydrate_m2m raises HydrationError on a bundle without object;
\* otherwise it leaves the object as it is and changes no entry of the
\* representation but those of the relations to many that have an
\* attribute.  obj_create and obj_update run full_hydrate, then the save of
\* the object, then hydrate_m2m, then save_m2m, each once.
C22_HydrateM2MFrameAndOrder ==
    /\ hydrated.op = "hydrate_m2m" =>
           IF ~hydrated.input.has_obj
           THEN hydrated.result.error = "HydrationError"
           ELSE /\ hydrated.result.error = "none"
                /\ hydrated.result.value.obj = hydrated.input.obj
                /\ \A n \in DOMAIN hydrated.input.data \cup DOMAIN hydrated.result.value.data :
                       ~(/\ n \in DOMAIN fields
                         /\ is_m2m(fields[n])
                         /\ fields[n].attribute # NoAttribute)
                           => SameEntry(hydrated.input.data, hydrated.result.value.data, n)
    /\ hydrated.op \in {"obj_create", "obj_update"} =>
           LET events == hydrated.result.value.events
           IN  /\ \A k \in {"hydrate", "save", "hydrate_m2m", "save_m2m"} :
                      Cardinality(Places(events, k)) = 1
               /\ \A i \in Places(events, "hydrate"), j \in Places(events, "save") : i < j
               /\ \A i \in Places(events, "field") \cup Places(events, "hook"),
                     j \in Places(events, "hydrate") : i < j
               /\ \A i \in Places(events, "save"), j \in Places(events, "hydrate_m2m") : i < j
               /\ \A i \in Places(events, "hydrate_m2m"),
                     j \in Places(events, "m2m") \cup Places(events, "m2m_hook") : i < j
               /\ \A i \in Places(events, "m2m") \cup Places(events, "m2m_hook")
                             \cup Places(events, "hydrate_m2m"),
                     j \in Places(events, "save_m2m") : i < j

C22_Witness ==
    /\ hydrated.op = "hydrate_m2m"
    /\ hydrated.input.has_obj
    /\ hydrated.input.obj = StoredObject
    /\ DOMAIN hydrated.input.data = {<<"title">>, <<"author">>, <<"tags">>, <<"labels">>}
    /\ hydrated.result.error = "none"
    /\ hydrated.result.value.data[<<"tags">>] = [t |-> "BundleList", v |-> "tag/1/,tag/2/"]
    /\ hydrated.result.value.data[<<"labels">>] = hydrated.input.data[<<"labels">>]
    /\ hydrated.result.value.data[<<"author">>] = hydrated.input.data[<<"author">>]

\* The value of an attribute, null when the object lacks it.
AttributeValue(obj, a) == IF a \in DOMAIN obj THEN obj[a] ELSE PyNone

\* C24: full_dehydrate of an object and full_hydrate of the representation
\* into a new object give every scalar field that has an attribute and is
\* not read-only the value the object had, a null value included.
C24_RoundTripKeepsWritableScalars ==
    hydrated.op = "round_trip" =>
        \A f \in DOMAIN fields :
            (/\ ~is_related(fields[f])
             /\ fields[f].attribute # NoAttribute
             /\ ~fields[f].readonly)
                => AttributeValue(hydrated.result.value.obj, fields[f].attribute)
                       = AttributeValue(hydrated.original, fields[f].attribute)

-----------------------------------------------------------------------------
(* Instances side by side, checked under SpecInstances *)

\* What an instance sees of its fields.
InstanceView(i) == view(instances.heap, instances.inst[i].fields)

\* What the class shows of base_fields.
ClassView == view(instances.heap, instances.base_fields)

\* C23: no step of an instance, the copy and the added resource_uri of
\* its construction and the stamps of its dehydrations included, changes
\* base_fields of the class or the fields another instance sees, however
\* the steps of the instances interleave: base_fields stays as the class
\* was declared, and a step changes the fields of one instance at most.
C23_InstancesOwnTheirFields ==
    [][/\ ClassView' = ClassView
       /\ ClassView = view(ClassInstances.heap, ClassInstances.base_fields)
       /\ \A i, j \in InstanceIds :
              (i # j /\ InstanceView(i)' # InstanceView(i)) => InstanceView(j)' = InstanceView(j)]_vars

C23_Witness ==
    /\ \A i \in InstanceIds :
           /\ instances.inst[i].pc = "ready"
           /\ InstanceView(i)[<<"author">>].api_name = InstanceApiName(i)
           /\ InstanceView(i)[<<"author">>].resource_name = PyStr("note")
           /\ <<"resource_uri">> \in DOMAIN InstanceView(i)
    /\ ClassView[<<"author">>].api_name = PyNone
    /\ <<"resource_uri">> \notin DOMAIN ClassView

-----------------------------------------------------------------------------
(* Cached lookups side by side, checked under SpecRace *)

\* The request has left the cached lookup.
Finished(p) == race.processes[p].pc = "done"

\* The requests whose cache.set has run.
Writers == {p \in Processes : race.processes[p].wrote}

\* C25: of two requests that run the same cached lookup against a cache
\* that starts empty, each one that read a value from the cache returns
\* it without a backend call, and each one that missed makes its own
\* backend call, returns what that call answered and has handed it to the
\* cache (a call that raises ends the request with nothing handed over);
\* once both have finished, a cache that keeps what it is given holds
\* under the key the value one of them handed over, and nothing when
\* neither did.
C25_RacingLookupsReturnOwnOrCached ==
    /\ \A p \in Processes :
           Finished(p) =>
               LET process == race.processes[p]
               IN  IF process.read # PyNone
                   THEN /\ process.result = Returned(process.read)
                        /\ ~process.called
                        /\ ~process.wrote
                   ELSE /\ process.called
                        /\ process.result = process.fetched
                        /\ process.wrote <=> process.fetched.error = "none"
    /\ (\A p \in Processes : Finished(p)) =>
           IF Writers # {} /\ meta.cache # "NoCache"
           THEN /\ DOMAIN cache = {RaceKey}
                /\ \E p \in Writers : cache[RaceKey] = race.processes[p].fetched.value
           ELSE cache = EmptyDict

\* Both requests missed and both asked the backend, which answered them
\* differently; the cache holds what one of them was answered.
C25_Witness ==
    /\ meta.cache = "SimpleCache"
    /\ \A p \in Processes :
           /\ Finished(p)
           /\ race.processes[p].read = PyNone
           /\ race.processes[p].called
           /\ race.processes[p].fetched.error = "none"
    /\ race.processes[1].result # race.processes[2].result
    /\ cache[RaceKey] \in {race.processes[p].result.value : p \in Processes}


====
